---- MODULE Spec2Model ----
(***************************************************************************)
(* A model of meta-adlib, the Meta Ad Library command-line client:         *)
(*   - the API client (internal/api): buildURL, Get, doRequest,            *)
(*     checkRateLimit and the paging loop of SearchAds;                    *)
(*   - the root command (cmd): PersistentPreRunE, resolveToken, the        *)
(*     expiry warnings, `info`, `auth status`, and the search / page ads / *)
(*     ad get handlers;                                                    *)
(*   - the shared credential reader (internal/metaauth).                   *)
(*                                                                         *)
(* Strings that the program inspects or builds (tokens, parameter values)  *)
(* are sequences of one-character strings, so "" is <<>>.  Instants are    *)
(* unix seconds.  Records of a result page are numbered in the order the   *)
(* server emits them.                                                      *)
(***************************************************************************)
EXTENDS Integers, Sequences, FiniteSets, TLC

VARIABLES
    \* ---- environment of the process
    metaToken,      \* os.Getenv("META_TOKEN")
    appID,          \* os.Getenv("META_APP_ID")
    appSecret,      \* os.Getenv("META_APP_SECRET")
    ownStore,       \* the file ~/.config/meta-ad-library/config.json
    sharedStore,    \* the file ~/.config/meta-auth/config.json
    now,            \* time.Now(), unix seconds
    runs,           \* invocations of the program started so far
    \* ---- the command being run
    cmd,            \* the command line: name and flag values
    cpc,            \* position of the command: "start", "run", "fetch", "exit"
    cmdErr,         \* error the command returned ("nil" when none)
    cfg,            \* cmd.cfg, the global loaded by resolveToken
    client,         \* cmd.client, the global built by PersistentPreRunE
    filesRead,      \* credential files read so far by this invocation
    stderr,         \* diagnostic lines written so far
    stdout,         \* primary output lines written so far
    \* ---- the auth handlers (part_002)
    authSetTokenNoExtend,   \* the flag --no-extend
    authExtendTokenSave,    \* the flag --save
    auth,           \* locals of the handler: finalToken, expiresAt, c
    ownBefore,      \* the own file as the process found it when it started
    \* ---- the frame of Client.SearchAds / Client.Get
    fpc,            \* "idle", "get", "wait", "got", "done"
    limit,          \* SearchAds' limit argument
    params,         \* SearchAds' params argument (the caller's map)
    p,              \* SearchAds' local p
    currentPath,    \* SearchAds' local currentPath
    all,            \* SearchAds' local all
    got,            \* what c.Get returned to the loop: [body, err]
    ret,            \* what SearchAds / Get returned to the command: [items, err]
    \* ---- the network, as observed
    requests,       \* request targets issued, in order
    responses,      \* responses the server gave, in order
    emitted         \* number of records the server has emitted so far

envVars   == <<metaToken, appID, appSecret, ownStore, sharedStore, now, runs>>
cmdVars   == <<cmd, cpc, cmdErr, cfg, client, filesRead, stderr, stdout>>
authVars  == <<authSetTokenNoExtend, authExtendTokenSave, auth, ownBefore>>
fetchVars == <<fpc, limit, params, p, currentPath, all, got, ret>>
netVars   == <<requests, responses, emitted>>
vars      == <<envVars, cmdVars, authVars, fetchVars, netVars>>

(***************************************************************************)
(* Bounds of the model.                                                    *)
(***************************************************************************)
MaxPages    == 3    \* requests one fetch may issue
MaxPageRecs == 2    \* records on one page
MaxLimit    == 3    \* largest limit a caller passes

(***************************************************************************)
(* Strings.                                                                *)
(***************************************************************************)
Str(s) == <<s>>
EmptyStr == <<>>

Range(s) == {s[i] : i \in 1..Len(s)}

Min(a, b) == IF a <= b THEN a ELSE b

SubSeqTo(s, n) == [i \in 1..n |-> s[i]]

\* Go's integer conversion of a float quotient truncates toward zero.
TruncDiv(a, b) == IF a >= 0 THEN a \div b ELSE -((-a) \div b)

(***************************************************************************)
(* url.Values: a map from key to the list of its values.  A key that is    *)
(* absent has the empty list.  Encode emits the keys in sorted order.      *)
(***************************************************************************)
KeyOrder ==
    << "access_token", "ad_active_status", "ad_delivery_date_max",
       "ad_delivery_date_min", "ad_reached_countries", "ad_type", "after",
       "client_id", "client_secret", "fb_exchange_token", "fields",
       "grant_type", "limit", "search_page_ids", "search_terms" >>

Keys == Range(KeyOrder)

NoValues == [k \in Keys |-> <<>>]

\* url.Values.Get: the first value of the key, "" when absent.
ValuesGet(v, k) == IF v[k] = <<>> THEN EmptyStr ELSE v[k][1]

\* url.Values.Set: replaces every value of the key by one.
ValuesSet(v, k, x) == [v EXCEPT ![k] = <<x>>]

\* The keys present in a map.
ValuesKeys(v) == {k \in Keys : v[k] # <<>>}

\* url.URL.Query / url.ParseQuery: the raw query (a list of key=value
\* pairs, in the order written) as a map; values of one key keep their order.
RECURSIVE ParseQuery(_)
ParseQuery(raw) ==
    IF raw = <<>> THEN NoValues
    ELSE LET rest == ParseQuery(Tail(raw))
             k    == Head(raw)[1]
             x    == Head(raw)[2]
         IN  [rest EXCEPT ![k] = <<x>> \o @]

\* url.Values.Encode: key=value pairs sorted by key.
RECURSIVE EncodeFrom(_, _)
EncodeFrom(v, i) ==
    IF i > Len(KeyOrder) THEN <<>>
    ELSE [j \in 1..Len(v[KeyOrder[i]]) |-> <<KeyOrder[i], v[KeyOrder[i]][j]>>]
         \o EncodeFrom(v, i + 1)

Encode(v) == EncodeFrom(v, 1)

(***************************************************************************)
(* Request targets.  A path handed to buildURL is a string; what matters   *)
(* of it is whether it starts with "http", whether url.Parse accepts it,   *)
(* its text before the "?" and its raw query.                              *)
(***************************************************************************)
baseURL == "https://graph.facebook.com/v23.0"

adLibPath ==
    [http |-> FALSE, valid |-> TRUE, text |-> "/ads_archive", query |-> <<>>]

\* The empty string, as a path.
NoPath == [http |-> FALSE, valid |-> TRUE, text |-> "", query |-> <<>>]

NoURL == [prefix |-> "", text |-> "", query |-> <<>>]

(***************************************************************************)
(* Errors.  Every error value has the same shape; the fields an error      *)
(* kind does not carry are left at their defaults.                         *)
(***************************************************************************)
NoPayload == [present |-> FALSE, code |-> 0]

NoPaging == [present |-> FALSE, next |-> NoPath]

NoBody ==
    [json |-> FALSE, error |-> NoPayload, data |-> <<>>, paging |-> NoPaging,
     read |-> FALSE]

Err(kind) == [kind |-> kind, status |-> 0, body |-> NoBody, payload |-> NoPayload]

nil == Err("nil")

(***************************************************************************)
(* Client (part_003).                                                      *)
(***************************************************************************)
NoClient == [built |-> FALSE, token |-> EmptyStr]

\* NewClient
NewClient(token) == [built |-> TRUE, token |-> token]

\* Client.baseParams: the common query parameters added to every request.
baseParams(c) == ValuesSet(NoValues, "access_token", c.token)

\* q.Set(k, vs[0]) for every key of `from`.
RECURSIVE SetAll(_, _, _)
SetAll(q, from, ks) ==
    IF ks = {} THEN q
    ELSE LET k == CHOOSE x \in ks : TRUE
         IN  SetAll(ValuesSet(q, k, from[k][1]), from, ks \ {k})

\* buildURL, with a slip: the caller's extra parameters are dropped.
buildURLNoExtra(path, base, extra) ==
    IF ~path.valid THEN [url |-> NoURL, err |-> Err("url parse")]
    ELSE [url |-> [prefix |-> IF path.http THEN "" ELSE baseURL,
                   text   |-> path.text,
                   query  |-> Encode(SetAll(ParseQuery(path.query), base,
                                            ValuesKeys(base)))],
          err |-> nil]

\* buildURL with a slip: a base parameter the path already carries is
\* left as the path has it.
buildURLKeepsPathValue(path, base, extra) ==
    IF ~path.valid THEN [url |-> NoURL, err |-> Err("url parse")]
    ELSE LET q0 == ParseQuery(path.query)
             q1 == SetAll(q0, base, {k \in ValuesKeys(base) : q0[k] = <<>>})
             q2 == SetAll(q1, extra, ValuesKeys(extra))
         IN  [url |-> [prefix |-> IF path.http THEN "" ELSE baseURL,
                       text   |-> path.text,
                       query  |-> Encode(q2)],
              err |-> nil]

\* buildURL: a path starting with "http" is parsed as it is, any other
\* path is appended to baseURL; base and then extra parameters are set in
\* its query, and the query is encoded again.
buildURL(path, base, extra) ==
    IF ~path.valid THEN [url |-> NoURL, err |-> Err("url parse")]
    ELSE LET q0 == ParseQuery(path.query)
             q1 == SetAll(q0, base, ValuesKeys(base))
             q2 == SetAll(q1, extra, ValuesKeys(extra))
         IN  [url |-> [prefix |-> IF path.http THEN "" ELSE baseURL,
                       text   |-> path.text,
                       query  |-> Encode(q2)],
              err |-> nil]

\* The X-App-Usage header of a response.
NoUsage ==
    [present |-> FALSE, json |-> FALSE,
     call_count |-> 0, total_cputime |-> 0, total_time |-> 0]

RateWarnPct == 75

\* checkRateLimit with a slip: the warning is given from 75 on.
checkRateLimitAtLeast(usage) ==
    IF ~usage.present THEN <<>>
    ELSE IF ~usage.json THEN <<>>
    ELSE LET pct == IF usage.total_time > usage.call_count
                    THEN usage.total_time ELSE usage.call_count
         IN  IF pct >= RateWarnPct
             THEN << [kind |-> "rate limit", n |-> pct] >>
             ELSE <<>>

\* checkRateLimit: the lines it writes to stderr.
checkRateLimit(usage) ==
    IF ~usage.present THEN <<>>
    ELSE IF ~usage.json THEN <<>>
    ELSE LET pct == IF usage.total_time > usage.call_count
                    THEN usage.total_time ELSE usage.call_count
         IN  IF pct > RateWarnPct
             THEN << [kind |-> "rate limit", n |-> pct] >>
             ELSE <<>>

ErrorStatus == 400

\* doRequest, with a slip: the HTTP status is looked at before the body.
doRequestStatusFirst(resp) ==
    IF resp.transport # "ok"
    THEN [body |-> NoBody, err |-> Err("request failed"), warn |-> <<>>]
    ELSE LET warn == checkRateLimit(resp.usage) IN
         IF ~resp.body.read
         THEN [body |-> NoBody, err |-> Err("reading response"), warn |-> warn]
         ELSE IF resp.status >= ErrorStatus
         THEN [body |-> NoBody,
               err  |-> [Err("http") EXCEPT !.status = resp.status,
                                            !.body = resp.body],
               warn |-> warn]
         ELSE IF resp.body.json /\ resp.body.error.present
         THEN [body |-> NoBody,
               err  |-> [Err("meta api") EXCEPT !.payload = resp.body.error],
               warn |-> warn]
         ELSE [body |-> resp.body, err |-> nil, warn |-> warn]

\* doRequest with a slip: the usage header is looked at only once the
\* response is known to be no error.
doRequestCheckLate(resp) ==
    IF resp.transport # "ok"
    THEN [body |-> NoBody, err |-> Err("request failed"), warn |-> <<>>]
    ELSE IF ~resp.body.read
    THEN [body |-> NoBody, err |-> Err("reading response"), warn |-> <<>>]
    ELSE IF resp.body.json /\ resp.body.error.present
    THEN [body |-> NoBody,
          err  |-> [Err("meta api") EXCEPT !.payload = resp.body.error],
          warn |-> <<>>]
    ELSE IF resp.status >= ErrorStatus
    THEN [body |-> NoBody,
          err  |-> [Err("http") EXCEPT !.status = resp.status,
                                       !.body = resp.body],
          warn |-> <<>>]
    ELSE [body |-> resp.body, err |-> nil,
          warn |-> checkRateLimit(resp.usage)]

\* Client.doRequest on the response the server gave: what it returns and
\* what it writes to stderr.
doRequest(resp) ==
    IF resp.transport # "ok"
    THEN [body |-> NoBody, err |-> Err("request failed"), warn |-> <<>>]
    ELSE LET warn == checkRateLimit(resp.usage) IN
         IF ~resp.body.read
         THEN [body |-> NoBody, err |-> Err("reading response"), warn |-> warn]
         ELSE IF resp.body.json /\ resp.body.error.present
         THEN [body |-> NoBody,
               err  |-> [Err("meta api") EXCEPT !.payload = resp.body.error],
               warn |-> warn]
         ELSE IF resp.status >= ErrorStatus
         THEN [body |-> NoBody,
               err  |-> [Err("http") EXCEPT !.status = resp.status,
                                            !.body = resp.body],
               warn |-> warn]
         ELSE [body |-> resp.body, err |-> nil, warn |-> warn]

NoGot == [body |-> NoBody, err |-> nil]
NoRet == [items |-> <<>>, body |-> NoBody, err |-> nil]

(***************************************************************************)
(* Credential records and the two credential files.                        *)
(***************************************************************************)
\* config.Config / metaauth.sharedConfig: the zero value.
NoCfg == [AccessToken |-> EmptyStr, UserID |-> EmptyStr, UserName |-> EmptyStr,
          TokenExpiresAt |-> 0]

\* The locals of an auth handler before it has run.
NoAuth == [finalToken |-> EmptyStr, expiresAt |-> 0, c |-> NoCfg]

\* A credential file: absent, present but not JSON, or holding a record.
NoStore == [exists |-> FALSE, json |-> FALSE, rec |-> NoCfg]

CorruptStore == [exists |-> TRUE, json |-> FALSE, rec |-> NoCfg]

StoreOf(rec) == [exists |-> TRUE, json |-> TRUE, rec |-> rec]

DaySeconds == 86400

\* The reading of the clock during the invocation.
Now0 == 1000000

WarnDays == 7

\* config.Load: the own file as a Config; a missing file is the empty
\* Config, a file that is not JSON an error.
ConfigLoad ==
    IF ~ownStore.exists THEN [c |-> NoCfg, err |-> nil]
    ELSE IF ~ownStore.json THEN [c |-> NoCfg, err |-> Err("load config")]
    ELSE [c |-> ownStore.rec, err |-> nil]

\* Config.IsExpired: the expiry is known and has passed.
ConfigIsExpired(c) == c.TokenExpiresAt # 0 /\ now > c.TokenExpiresAt

\* Config.DaysUntilExpiry: whole days until the expiry, -1 when unknown,
\* 0 when past.
ConfigDaysUntilExpiry(c) ==
    IF c.TokenExpiresAt = 0 THEN -1
    ELSE IF c.TokenExpiresAt - now < 0 THEN 0
    ELSE TruncDiv(c.TokenExpiresAt - now, DaySeconds)

\* metaauth.Token (part_004): the shared file's token; a missing file is
\* ("", nil), a file that is not JSON an error.
Token ==
    IF ~sharedStore.exists THEN [token |-> EmptyStr, err |-> nil]
    ELSE IF ~sharedStore.json
    THEN [token |-> EmptyStr, err |-> Err("read meta-auth config")]
    ELSE [token |-> sharedStore.rec.AccessToken, err |-> nil]

\* metaauth.IsExpired (part_004).
IsExpired ==
    IF ~sharedStore.exists \/ ~sharedStore.json THEN FALSE
    ELSE IF sharedStore.rec.TokenExpiresAt = 0 THEN FALSE
    ELSE now > sharedStore.rec.TokenExpiresAt

\* metaauth.DaysUntilExpiry with a slip: the quotient is rounded up.
DaysUntilExpiryCeil ==
    IF ~sharedStore.exists \/ ~sharedStore.json THEN -1
    ELSE IF sharedStore.rec.TokenExpiresAt = 0 THEN -1
    ELSE LET d == sharedStore.rec.TokenExpiresAt - now IN
         IF d < 0 THEN 0 ELSE TruncDiv(d + DaySeconds - 1, DaySeconds)

\* metaauth.DaysUntilExpiry (part_004).
DaysUntilExpiry ==
    IF ~sharedStore.exists \/ ~sharedStore.json THEN -1
    ELSE IF sharedStore.rec.TokenExpiresAt = 0 THEN -1
    ELSE LET d == sharedStore.rec.TokenExpiresAt - now IN
         IF d < 0 THEN 0 ELSE TruncDiv(d, DaySeconds)

Line(kind, n) == [kind |-> kind, n |-> n]

\* warnOwnExpiry (part_001): the lines it writes to stderr for Config c.
warnOwnExpiry(c) ==
    IF c.isNil THEN <<>>
    ELSE LET days == ConfigDaysUntilExpiry(c.rec) IN
         IF ConfigIsExpired(c.rec) THEN << Line("own token has expired", 0) >>
         ELSE IF days >= 0 /\ days <= WarnDays
         THEN << Line("own token expires in days", days) >>
         ELSE <<>>

\* warnSharedExpiry (part_001).
warnSharedExpiry ==
    LET days == DaysUntilExpiry IN
        IF IsExpired THEN << Line("meta-auth token has expired", 0) >>
        ELSE IF days >= 0 /\ days <= WarnDays
        THEN << Line("meta-auth token expires in days", days) >>
        ELSE <<>>

NilCfg == [isNil |-> TRUE, rec |-> NoCfg]

NotAuthenticated ==
    Err("not authenticated: meta-auth login / meta-adlib auth set-token")

\* What resolveToken hands back: the token and error it returns, the lines
\* it writes to stderr, the value it leaves in the global cfg and the
\* credential files it has read.
Resolved(token, err, warn, c, read) ==
    [token |-> token, err |-> err, warn |-> warn, cfg |-> c, read |-> read]

\* Lines 202-205 with a slip: an expired own token is refused.
OwnFoundRefusesExpired(c) ==
    IF ConfigIsExpired(c.rec)
    THEN Resolved(EmptyStr, Err("token has expired"), warnOwnExpiry(c), c,
                  {"own"})
    ELSE Resolved(c.rec.AccessToken, nil, warnOwnExpiry(c), c, {"own"})

\* resolveToken lines 202-205: the own config holds a token.
OwnFound(c) == Resolved(c.rec.AccessToken, nil, warnOwnExpiry(c), c, {"own"})

\* resolveToken lines 212-215: the shared config holds a token.
SharedFound(c, token) ==
    Resolved(token, nil, warnSharedExpiry, c, {"own", "shared"})

\* Line 217 with a slip: "" is returned without an error.
NoneFoundNoError(c) == Resolved(EmptyStr, nil, <<>>, c, {"own", "shared"})

\* resolveToken line 217: no source holds a token.
NoneFound(c) == Resolved(EmptyStr, NotAuthenticated, <<>>, c, {"own", "shared"})

\* resolveToken with a slip: the shared store is asked before the own one.
resolveTokenSharedFirst ==
    IF metaToken # EmptyStr
    THEN Resolved(metaToken, nil, <<>>, cfg, {})
    ELSE LET sh == Token IN
         IF sh.err # nil
         THEN Resolved(EmptyStr, Err("failed to read meta-auth config"), <<>>,
                       cfg, {"shared"})
         ELSE IF sh.token # EmptyStr
         THEN SharedFound(cfg, sh.token)
         ELSE LET l == ConfigLoad
                  c == [isNil |-> l.err # nil, rec |-> l.c]
              IN  IF l.err # nil
                  THEN Resolved(EmptyStr, Err("failed to load config"), <<>>, c,
                                {"own", "shared"})
                  ELSE IF l.c.AccessToken # EmptyStr
                  THEN OwnFound(c)
                  ELSE NoneFound(c)

\* resolveToken (part_001): META_TOKEN, then the own config, then the
\* shared meta-auth config.
resolveToken ==
    IF metaToken # EmptyStr
    THEN Resolved(metaToken, nil, <<>>, cfg, {})
    ELSE LET l == ConfigLoad
             c == [isNil |-> l.err # nil, rec |-> l.c]
         IN  IF l.err # nil
             THEN Resolved(EmptyStr, Err("failed to load config"), <<>>, c,
                           {"own"})
             ELSE IF l.c.AccessToken # EmptyStr
             THEN OwnFound(c)
             ELSE LET sh == Token IN
                  IF sh.err # nil
                  THEN Resolved(EmptyStr, Err("failed to read meta-auth config"),
                                <<>>, c, {"own", "shared"})
                  ELSE IF sh.token # EmptyStr
                  THEN SharedFound(c, sh.token)
                  ELSE NoneFound(c)

(***************************************************************************)
(* The server.  What it answers is not under the program's control: each   *)
(* response is drawn from a set.  Tokens and cursors are short strings.    *)
(***************************************************************************)
TokT == Str("T")    \* the token the client was built with
TokS == Str("S")    \* another token, as a locator may carry

\* An absolute next-page locator, its parameters not in key order, with an
\* access_token and a limit of its own.
LocAbs ==
    [http |-> TRUE, valid |-> TRUE,
     text |-> "https://graph.facebook.com/v23.0/ads_archive",
     query |-> << <<"limit", Str("25")>>, <<"after", Str("c")>>,
                  <<"access_token", TokS>> >>]

\* A locator that does not start with "http".
LocRel ==
    [http |-> FALSE, valid |-> TRUE, text |-> "/ads_archive",
     query |-> << <<"after", Str("d")>> >>]

\* A locator url.Parse rejects.
LocBad ==
    [http |-> TRUE, valid |-> FALSE, text |-> "http://[", query |-> <<>>]

Locators == {LocAbs, LocRel, LocBad}

Pagings ==
    {NoPaging, [present |-> TRUE, next |-> NoPath]}
    \cup {[present |-> TRUE, next |-> l] : l \in Locators}

\* The n-th page's records: the next k records the server emits.
Fresh(n, k) == [i \in 1..k |-> n + i]

PageBody(data, paging) ==
    [json |-> TRUE, error |-> NoPayload, data |-> data, paging |-> paging,
     read |-> TRUE]

\* A body with an error payload {"error": {"code": 190, ...}}.
ErrorBody ==
    [json |-> TRUE, error |-> [present |-> TRUE, code |-> 190], data |-> <<>>,
     paging |-> NoPaging, read |-> TRUE]

\* A body that is not a JSON object.
GarbageBody == [NoBody EXCEPT !.read = TRUE]

Response(status, usage, body) ==
    [transport |-> "ok", status |-> status, usage |-> usage, body |-> body]

\* The connection failed: no response at all.
TransportFail ==
    [transport |-> "fail", status |-> 0, usage |-> NoUsage, body |-> NoBody]

Statuses == {200, 400}

\* Every response the model's server may give when it has emitted n records.
FetchResponses(n) ==
    {TransportFail}
    \cup {Response(st, NoUsage, b) :
             st \in Statuses,
             b \in {NoBody, GarbageBody, ErrorBody}
                   \cup {PageBody(Fresh(n, k), pg) :
                            k \in 0..MaxPageRecs, pg \in Pagings}}

(***************************************************************************)
(* Client.Get and Client.SearchAds (part_003), step by step.               *)
(***************************************************************************)
\* SearchAds lines 111-125: the clone of params, the default batch size,
\* the first path.
SearchAdsEnter(ps, lim) ==
    /\ params' = ps
    /\ limit' = lim
    /\ p' = IF ValuesGet(ps, "limit") = EmptyStr
            THEN ValuesSet(ps, "limit", <<"1", "0", "0">>)
            ELSE ps
    /\ currentPath' = adLibPath
    /\ all' = <<>>
    /\ got' = NoGot
    /\ ret' = NoRet
    /\ fpc' = "get"

\* Client.Get up to the sending of the request: buildURL, and the request
\* goes out unless buildURL failed.
Get ==
    /\ fpc = "get"
    /\ Len(requests) < MaxPages
    /\ LET b == buildURL(currentPath, baseParams(client), p) IN
         IF b.err # nil
         THEN /\ got' = [body |-> NoBody, err |-> b.err]
              /\ fpc' = "got"
              /\ UNCHANGED requests
         ELSE /\ requests' = Append(requests, b.url)
              /\ fpc' = "wait"
              /\ UNCHANGED got
    /\ UNCHANGED <<envVars, authVars, cmdVars, limit, params, p, currentPath, all, ret,
                   responses, emitted>>

\* Client.doRequest: the server answers the request in flight and
\* doRequest turns the response into what Get returns.
Answer(resp) ==
    /\ fpc = "wait"
    /\ responses' = Append(responses, resp)
    /\ emitted' = emitted + Len(resp.body.data)
    /\ LET r == doRequest(resp) IN
         /\ got' = [body |-> r.body, err |-> r.err]
         /\ stderr' = stderr \o r.warn
    /\ fpc' = "got"
    /\ UNCHANGED <<envVars, authVars, cmd, cpc, cmdErr, cfg, client, filesRead, stdout,
                   limit, params, p, currentPath, all, ret, requests>>

\* Line 130 / 138 with a slip: the records gathered so far are handed
\* back together with the error.
FailedFetchPartial(acc, err) == [items |-> acc, body |-> NoBody, err |-> err]

\* Lines 130 and 138: `return nil, err`.
FailedFetch(acc, err) == [items |-> <<>>, body |-> NoBody, err |-> err]

\* Line 144 with a slip: the limit counts as reached only once exceeded.
LimitReachedLate(acc, lim) == lim > 0 /\ Len(acc) > lim

\* Line 144: `limit > 0 && len(all) >= limit`.
LimitReached(acc, lim) == lim > 0 /\ Len(acc) >= lim

\* Line 145 with a slip: no truncation.
TruncateNot(acc, lim) == acc

\* Line 145: `all[:limit]`.
Truncate(acc, lim) == SubSeqTo(acc, lim)

\* Line 149 with a slip: a page without records ends the loop as well.
NoNextPageOrEmpty(body) ==
    ~body.paging.present \/ body.paging.next = NoPath \/ body.data = <<>>

\* Line 149: `page.Paging == nil || page.Paging.Next == ""`.
NoNextPage(body) == ~body.paging.present \/ body.paging.next = NoPath

\* Line 155 with a slip: the caller's parameters are kept for the next page.
NextPageParamsKept(ps) == ps

\* Line 155: `p = url.Values{}`.
NextPageParams(ps) == NoValues

\* SearchAds lines 129-158: one turn of the loop after Get has returned.
SearchAdsLoop ==
    /\ fpc = "got"
    /\ cmd.name \in {"search", "page ads"}
    /\ IF got.err # nil
       THEN /\ ret' = FailedFetch(all, got.err)
            /\ fpc' = "done"
            /\ UNCHANGED <<all, currentPath, p>>
       ELSE IF ~got.body.json
       THEN /\ ret' = FailedFetch(all, Err("parsing page"))
            /\ fpc' = "done"
            /\ UNCHANGED <<all, currentPath, p>>
       ELSE LET acc == all \o got.body.data IN
            IF LimitReached(acc, limit)
            THEN /\ all' = Truncate(acc, limit)
                 /\ ret' = [items |-> Truncate(acc, limit), body |-> NoBody,
                            err |-> nil]
                 /\ fpc' = "done"
                 /\ UNCHANGED <<currentPath, p>>
            ELSE IF NoNextPage(got.body)
            THEN /\ all' = acc
                 /\ ret' = [items |-> acc, body |-> NoBody, err |-> nil]
                 /\ fpc' = "done"
                 /\ UNCHANGED <<currentPath, p>>
            ELSE /\ all' = acc
                 /\ currentPath' = got.body.paging.next
                 /\ p' = NextPageParams(p)
                 /\ fpc' = "get"
                 /\ UNCHANGED ret
    /\ UNCHANGED <<envVars, authVars, cmdVars, limit, params, got, netVars>>

(***************************************************************************)
(* The paging engine on its own: a client built for one token, inside a    *)
(* search whose query passed validation, about to call SearchAds with      *)
(* params and limit drawn from the callers' ranges.                        *)
(***************************************************************************)
\* The command line `meta-adlib search --query q --country U`.
SearchCmd ==
    [path |-> <<"meta-adlib", "search">>, name |-> "search",
     countries |-> <<Str("U")>>, query |-> Str("q"), pageIDs |-> <<>>,
     arg |-> EmptyStr, limit |-> 0]

\* Parameter sets a caller passes: with and without a page-size hint.
FetchParams ==
    LET base == ValuesSet(ValuesSet(NoValues, "search_terms", Str("q")),
                          "fields", Str("f"))
    IN  {base, ValuesSet(base, "limit", <<"5", "0">>)}

InitFetch ==
    /\ metaToken = TokT
    /\ ownStore = NoStore
    /\ sharedStore = NoStore
    /\ now = Now0
    /\ runs = 1
    /\ appID = EmptyStr
    /\ appSecret = EmptyStr
    /\ authSetTokenNoExtend = FALSE
    /\ authExtendTokenSave = FALSE
    /\ ownBefore = ownStore
    /\ auth = NoAuth
    /\ cmd \in {[SearchCmd EXCEPT !.limit = l] : l \in 0..MaxLimit}
    /\ cpc = "run"
    /\ cmdErr = nil
    /\ cfg = NilCfg
    /\ client = NewClient(TokT)
    /\ filesRead = {}
    /\ stderr = <<>>
    /\ stdout = <<>>
    /\ fpc = "idle"
    /\ limit = 0
    /\ params = NoValues
    /\ p = NoValues
    /\ currentPath = NoPath
    /\ all = <<>>
    /\ got = NoGot
    /\ ret = NoRet
    /\ requests = <<>>
    /\ responses = <<>>
    /\ emitted = 0

\* The call client.SearchAds(params, limit).
SearchAdsCall ==
    /\ fpc = "idle"
    /\ cpc = "run"
    /\ \E ps \in FetchParams : SearchAdsEnter(ps, cmd.limit)
    /\ cpc' = "fetch"
    /\ UNCHANGED <<envVars, authVars, cmd, cmdErr, cfg, client, filesRead, stderr, stdout,
                   netVars>>

ServerAnswers == \E resp \in FetchResponses(emitted) : Answer(resp)

NextFetch ==
    \/ SearchAdsCall
    \/ Get
    \/ ServerAnswers
    \/ SearchAdsLoop

SpecFetch == InitFetch /\ [][NextFetch]_vars

(***************************************************************************)
(* The commands (part_001, part_002, cmd/search.go, cmd/page.go,           *)
(* cmd/ad.go).                                                             *)
(***************************************************************************)
\* isAuthCommand: the command or one of its parents is named "auth".
isAuthCommand(c) == \E i \in 1..Len(c.path) : c.path[i] = "auth"

Fail(err) == cmdErr' = err /\ cpc' = "exit"

\* rootCmd.PersistentPreRunE (part_001 lines 64-76).
PersistentPreRunE ==
    /\ cpc = "start"
    /\ IF isAuthCommand(cmd)
       THEN /\ cpc' = "run"
            /\ UNCHANGED <<cmdErr, cfg, client, filesRead, stderr>>
       ELSE LET r == resolveToken IN
            /\ cfg' = r.cfg
            /\ filesRead' = filesRead \cup r.read
            /\ stderr' = stderr \o r.warn
            /\ IF r.err # nil
               THEN Fail(r.err) /\ UNCHANGED client
               ELSE /\ client' = NewClient(r.token)
                    /\ cpc' = "run"
                    /\ UNCHANGED cmdErr
    /\ UNCHANGED <<envVars, authVars, cmd, stdout, fetchVars, netVars>>

\* Characters that are not printable are written by name: "LF" is the
\* line feed U+000A, "BEL" the bell U+0007.
\* strconv.Quote on one character: '"' and '\' get a backslash, a line
\* feed becomes \n and a bell \a (Go escapes), a printable character is
\* kept.
QuoteChar(c) ==
    IF c \in {"\"", "\\"} THEN <<"\\", c>>
    ELSE IF c = "LF" THEN <<"\\", "n">>
    ELSE IF c = "BEL" THEN <<"\\", "a">>
    ELSE <<c>>

\* strconv.Quote without the enclosing quotes.
RECURSIVE Quoted(_)
Quoted(str) ==
    IF str = <<>> THEN <<>>
    ELSE QuoteChar(Head(str)) \o Quoted(Tail(str))

Quote(str) == <<"\"">> \o Quoted(str) \o <<"\"">>

\* strings.Join(quoted, ",")
RECURSIVE JoinQuoted(_)
JoinQuoted(ss) ==
    IF ss = <<>> THEN <<>>
    ELSE IF Len(ss) = 1 THEN Quote(ss[1])
    ELSE Quote(ss[1]) \o <<",">> \o JoinQuoted(Tail(ss))

\* toJSONArray (cmd/search.go)
toJSONArray(ss) == <<"[">> \o JoinQuoted(ss) \o <<"]">>

ALL == <<"A", "L", "L">>

\* runSearch lines 90-124: the parameters of a search.  The date, platform,
\* language and media-type flags are left unset.
SearchParams(c) ==
    LET p1 == ValuesSet(NoValues, "fields", Str("f"))
        p2 == ValuesSet(p1, "ad_type", ALL)
        p3 == ValuesSet(p2, "ad_active_status", ALL)
        p4 == ValuesSet(p3, "ad_reached_countries", toJSONArray(c.countries))
        p5 == IF c.query # EmptyStr
              THEN ValuesSet(p4, "search_terms", c.query) ELSE p4
        p6 == IF Len(c.pageIDs) > 0
              THEN ValuesSet(p5, "search_page_ids", toJSONArray(c.pageIDs))
              ELSE p5
    IN  p6

\* runSearch with a slip: the two checks of lines 83-88 in the other order.
runSearchQueryFirst ==
    /\ cpc = "run"
    /\ cmd.name = "search"
    /\ IF cmd.query = EmptyStr /\ Len(cmd.pageIDs) = 0
       THEN Fail(Err("at least one of --query or --page-id is required"))
            /\ UNCHANGED fetchVars
       ELSE IF Len(cmd.countries) = 0
       THEN Fail(Err("at least one --country is required"))
            /\ UNCHANGED fetchVars
       ELSE /\ SearchAdsEnter(SearchParams(cmd), cmd.limit)
            /\ cpc' = "fetch"
            /\ UNCHANGED cmdErr
    /\ UNCHANGED <<envVars, authVars, cmd, cfg, client, filesRead, stderr, stdout, netVars>>

\* runSearch up to the call of SearchAds.
runSearch ==
    /\ cpc = "run"
    /\ cmd.name = "search"
    /\ IF Len(cmd.countries) = 0
       THEN Fail(Err("at least one --country is required"))
            /\ UNCHANGED fetchVars
       ELSE IF cmd.query = EmptyStr /\ Len(cmd.pageIDs) = 0
       THEN Fail(Err("at least one of --query or --page-id is required"))
            /\ UNCHANGED fetchVars
       ELSE /\ SearchAdsEnter(SearchParams(cmd), cmd.limit)
            /\ cpc' = "fetch"
            /\ UNCHANGED cmdErr
    /\ UNCHANGED <<envVars, authVars, cmd, cfg, client, filesRead, stderr, stdout, netVars>>

\* runPageAds lines 62-74: the parameters of a page listing.
PageParams(c) ==
    LET p1 == ValuesSet(NoValues, "fields", Str("f"))
        p2 == ValuesSet(p1, "ad_type", ALL)
        p3 == ValuesSet(p2, "ad_active_status", ALL)
        p4 == ValuesSet(p3, "ad_reached_countries", toJSONArray(c.countries))
    IN  ValuesSet(p4, "search_page_ids", toJSONArray(<<c.arg>>))

\* runPageAds up to the call of SearchAds.
runPageAds ==
    /\ cpc = "run"
    /\ cmd.name = "page ads"
    /\ IF Len(cmd.countries) = 0
       THEN Fail(Err("at least one --country is required"))
            /\ UNCHANGED fetchVars
       ELSE /\ SearchAdsEnter(PageParams(cmd), cmd.limit)
            /\ cpc' = "fetch"
            /\ UNCHANGED cmdErr
    /\ UNCHANGED <<envVars, authVars, cmd, cfg, client, filesRead, stderr, stdout, netVars>>

\* runSearch / runPageAds after SearchAds has returned.
runSearchReturn ==
    /\ cpc = "fetch"
    /\ fpc = "done"
    /\ cmd.name \in {"search", "page ads"}
    /\ IF ret.err # nil
       THEN Fail(ret.err) /\ UNCHANGED stdout
       ELSE /\ stdout' = Append(stdout,
                            IF Len(ret.items) = 0 THEN Line("no ads found", 0)
                            ELSE Line("ads returned", Len(ret.items)))
            /\ cpc' = "exit"
            /\ UNCHANGED cmdErr
    /\ UNCHANGED <<envVars, authVars, cmd, cfg, client, filesRead, stderr, fetchVars,
                   netVars>>

\* runAdGet up to the request: client.Get("/"+id, params).
runAdGet ==
    /\ cpc = "run"
    /\ cmd.name = "ad get"
    /\ currentPath' =
          [http |-> FALSE, valid |-> TRUE, text |-> "/<ad_archive_id>",
           query |-> <<>>]
    /\ p' = ValuesSet(NoValues, "fields", Str("f"))
    /\ fpc' = "get"
    /\ cpc' = "fetch"
    /\ UNCHANGED <<envVars, authVars, cmd, cmdErr, cfg, client, filesRead, stderr, stdout,
                   limit, params, all, got, ret, netVars>>

\* runAdGet after Get has returned.
runAdGetReturn ==
    /\ cpc = "fetch"
    /\ fpc = "got"
    /\ cmd.name = "ad get"
    /\ fpc' = "done"
    /\ ret' = [items |-> <<>>, body |-> got.body, err |-> got.err]
    /\ IF got.err # nil
       THEN Fail(got.err) /\ UNCHANGED stdout
       ELSE IF ~got.body.json
       THEN Fail(Err("parsing ad")) /\ UNCHANGED stdout
       ELSE /\ stdout' = Append(stdout, Line("ad detail", 0))
            /\ cpc' = "exit"
            /\ UNCHANGED cmdErr
    /\ UNCHANGED <<envVars, authVars, cmd, cfg, client, filesRead, stderr,
                   limit, params, p, currentPath, all, got, netVars>>

\* readTokenFromFile (part_001): the token of a credential file, "" when
\* the file is missing or is not JSON.
readTokenFromFile(store) ==
    IF ~store.exists \/ ~store.json THEN EmptyStr ELSE store.rec.AccessToken

\* printExpiryFromFile lines 164-174: `days := int(time.Until(exp).Hours()
\* / 24)`, EXPIRED when days < 0.
ExpiryLine(rec) ==
    IF rec.TokenExpiresAt = 0 THEN Line("expires: unknown", 0)
    ELSE LET days == TruncDiv(rec.TokenExpiresAt - now, DaySeconds) IN
         IF days < 0 THEN Line("expires: EXPIRED", 0)
         ELSE Line("expires: days left", days)

\* printExpiryFromFile (part_001): the expiry of the first of the two
\* files that holds a token.
printExpiryFromFile ==
    IF readTokenFromFile(ownStore) # EmptyStr
    THEN << ExpiryLine(ownStore.rec) >>
    ELSE IF readTokenFromFile(sharedStore) # EmptyStr
    THEN << ExpiryLine(sharedStore.rec) >>
    ELSE <<>>

\* printInfo lines 108-119: the token source line.
TokenSource ==
    IF metaToken # EmptyStr THEN "META_TOKEN env var"
    ELSE IF readTokenFromFile(ownStore) # EmptyStr THEN "own config"
    ELSE IF readTokenFromFile(sharedStore) # EmptyStr
    THEN "meta-auth shared config"
    ELSE "(not set)"

\* infoCmd.Run: printInfo (part_001).
printInfo ==
    /\ cpc = "run"
    /\ cmd.name = "info"
    /\ stdout' = stdout \o << Line(TokenSource, 0) >> \o printExpiryFromFile
    /\ filesRead' = filesRead \cup {"own"}
                    \cup (IF metaToken = EmptyStr
                             /\ readTokenFromFile(ownStore) # EmptyStr
                          THEN {} ELSE {"shared"})
    /\ cpc' = "exit"
    /\ UNCHANGED <<envVars, authVars, cmd, cmdErr, cfg, client, stderr, fetchVars, netVars>>

\* authStatusCmd.RunE lines 115-128: the expiry line of `auth status`.
StatusExpiry(c) ==
    LET days == ConfigDaysUntilExpiry(c) IN
        IF days = -1 THEN Line("status expires: unknown", 0)
        ELSE IF ConfigIsExpired(c) THEN Line("status expires: EXPIRED", 0)
        ELSE IF days <= WarnDays THEN Line("status expires: day(s) left, refresh", days)
        ELSE Line("status expires: days left", days)

\* authStatusCmd.RunE (part_002).
authStatus ==
    /\ cpc = "run"
    /\ cmd.name = "auth status"
    /\ filesRead' = filesRead \cup {"own"}
    /\ LET l == ConfigLoad IN
         IF l.err # nil
         THEN Fail(Err("failed to load config")) /\ UNCHANGED stdout
         ELSE /\ cpc' = "exit"
              /\ UNCHANGED cmdErr
              /\ IF l.c.AccessToken = EmptyStr
                 THEN stdout' = Append(stdout, Line("not authenticated", 0))
                 ELSE stdout' = stdout \o << Line("authenticated as", 0),
                                            StatusExpiry(l.c) >>
    /\ UNCHANGED <<envVars, authVars, cmd, cfg, client, stderr, fetchVars, netVars>>

(***************************************************************************)
(* One invocation of the program: the credential sources and the command   *)
(* line are drawn from small sets, the clock is at Now0.                   *)
(***************************************************************************)
TokE == Str("E")    \* the token in META_TOKEN
TokL == Str("L")    \* the token in the own config
TokH == Str("H")    \* the token in the shared meta-auth config

\* Expiry instants, relative to the clock: 25 hours ago, an hour ago, now,
\* 7 days, 7 days and a half, 8 days and 30 days from now.
ExpiryOffsets == {-90000, -3600, 0, 604800, 648000, 691200, 2592000}

Expiries == {0} \cup {Now0 + d : d \in ExpiryOffsets}

StoresOf(token) ==
    {NoStore, CorruptStore, StoreOf(NoCfg)}
    \cup {StoreOf([AccessToken |-> token, UserID |-> Str("i"),
                   UserName |-> Str("n"), TokenExpiresAt |-> e]) :
             e \in Expiries}

CmdLimits == {0, 2}

CmdLines ==
    {[SearchCmd EXCEPT !.countries = cs, !.query = q, !.pageIDs = ids,
                        !.limit = l] :
        cs \in {<<>>, <<Str("U")>>}, q \in {EmptyStr, Str("q")},
        ids \in {<<>>, <<Str("1")>>}, l \in CmdLimits}
    \cup {[SearchCmd EXCEPT !.path = <<"meta-adlib", "page", "ads">>,
                            !.name = "page ads", !.query = EmptyStr,
                            !.arg = Str("1"), !.countries = cs, !.limit = l] :
             cs \in {<<>>, <<Str("U")>>}, l \in CmdLimits}
    \cup {[SearchCmd EXCEPT !.path = <<"meta-adlib", "ad", "get">>,
                            !.name = "ad get", !.query = EmptyStr,
                            !.countries = <<>>, !.arg = Str("1")],
          [SearchCmd EXCEPT !.path = <<"meta-adlib", "info">>,
                            !.name = "info", !.query = EmptyStr,
                            !.countries = <<>>],
          [SearchCmd EXCEPT !.path = <<"meta-adlib", "auth", "status">>,
                            !.name = "auth status", !.query = EmptyStr,
                            !.countries = <<>>]}

InitCmd ==
    /\ metaToken \in {EmptyStr, TokE}
    /\ ownStore \in StoresOf(TokL)
    /\ sharedStore \in StoresOf(TokH)
    /\ now = Now0
    /\ runs = 1
    /\ appID = EmptyStr
    /\ appSecret = EmptyStr
    /\ authSetTokenNoExtend = FALSE
    /\ authExtendTokenSave = FALSE
    /\ ownBefore = ownStore
    /\ auth = NoAuth
    /\ cmd \in CmdLines
    /\ cpc = "start"
    /\ cmdErr = nil
    /\ cfg = NilCfg
    /\ client = NoClient
    /\ filesRead = {}
    /\ stderr = <<>>
    /\ stdout = <<>>
    /\ fpc = "idle"
    /\ limit = 0
    /\ params = NoValues
    /\ p = NoValues
    /\ currentPath = NoPath
    /\ all = <<>>
    /\ got = NoGot
    /\ ret = NoRet
    /\ requests = <<>>
    /\ responses = <<>>
    /\ emitted = 0

\* The responses of the server in a whole invocation: a failed connection,
\* an error payload, a last page, a page naming a next one.
CmdResponses(n) ==
    {TransportFail,
     Response(200, NoUsage, ErrorBody),
     Response(200, NoUsage, PageBody(Fresh(n, 1), NoPaging)),
     Response(200, NoUsage, PageBody(Fresh(n, 1), [present |-> TRUE, next |-> LocAbs]))}

CmdServerAnswers == \E resp \in CmdResponses(emitted) : Answer(resp)

NextCmd ==
    \/ PersistentPreRunE
    \/ runSearch
    \/ runPageAds
    \/ runAdGet
    \/ printInfo
    \/ authStatus
    \/ Get
    \/ CmdServerAnswers
    \/ SearchAdsLoop
    \/ runSearchReturn
    \/ runAdGetReturn

SpecCmd == InitCmd /\ [][NextCmd]_vars

(***************************************************************************)
(* The auth handlers (part_002): set-token, extend-token, refresh, logout. *)
(* They talk to two endpoints with http.Get, not through the API client.   *)
(***************************************************************************)
metaMeURL == "https://graph.facebook.com/v23.0/me"

metaExchangeURL == "https://graph.facebook.com/v23.0/oauth/access_token"

\* exchangeToLongLived lines 320-326: the request it sends.
ExchangeRequest(shortToken) ==
    [prefix |-> "", text |-> metaExchangeURL,
     query |-> Encode(
        ValuesSet(ValuesSet(ValuesSet(ValuesSet(NoValues,
            "grant_type", Str("fb_exchange_token")),
            "client_id", appID),
            "client_secret", appSecret),
            "fb_exchange_token", shortToken))]

\* fetchMe lines 364-368: the request it sends.
MeRequest(token) ==
    [prefix |-> "", text |-> metaMeURL,
     query |-> Encode(ValuesSet(ValuesSet(NoValues,
                  "access_token", token), "fields", Str("id,name")))]

\* The body of a response of the two endpoints: a JSON object of which the
\* handlers read access_token, expires_in, id, name and error.
NoAuthBody ==
    [read |-> FALSE, json |-> FALSE, error |-> FALSE,
     access_token |-> EmptyStr, expires_in |-> 0,
     id |-> EmptyStr, name |-> EmptyStr]

\* metaTokenFetch with a slip: a missing expires_in gives the instant of
\* the exchange as the expiry.
metaTokenFetchNoGuard(resp) ==
    LET fail(kind) == [token |-> EmptyStr, expiresAt |-> 0, err |-> Err(kind)]
    IN  IF resp.transport # "ok" THEN fail("http get")
        ELSE IF ~resp.body.read THEN fail("http read")
        ELSE IF ~resp.body.json THEN fail("parsing token response")
        ELSE IF resp.body.error THEN fail("meta api error")
        ELSE IF resp.body.access_token = EmptyStr
        THEN fail("no access_token in response")
        ELSE [token     |-> resp.body.access_token,
              expiresAt |-> now + resp.body.expires_in,
              err       |-> nil]

\* metaTokenFetch (part_002) on the response to its request.
metaTokenFetch(resp) ==
    LET fail(kind) == [token |-> EmptyStr, expiresAt |-> 0, err |-> Err(kind)]
    IN  IF resp.transport # "ok" THEN fail("http get")
        ELSE IF ~resp.body.read THEN fail("http read")
        ELSE IF ~resp.body.json THEN fail("parsing token response")
        ELSE IF resp.body.error THEN fail("meta api error")
        ELSE IF resp.body.access_token = EmptyStr
        THEN fail("no access_token in response")
        ELSE [token     |-> resp.body.access_token,
              expiresAt |-> IF resp.body.expires_in > 0
                            THEN now + resp.body.expires_in ELSE 0,
              err       |-> nil]

\* fetchMe with a slip: the error payload is honoured only on an error
\* status.
fetchMeStatusGated(resp) ==
    LET fail(kind) == [userID |-> EmptyStr, userName |-> EmptyStr,
                       err |-> Err(kind)]
    IN  IF resp.transport # "ok" THEN fail("http get")
        ELSE IF ~resp.body.read THEN fail("http read")
        ELSE IF ~resp.body.json THEN fail("parsing /me response")
        ELSE IF resp.body.error /\ resp.status >= ErrorStatus
        THEN fail("meta api error")
        ELSE [userID |-> resp.body.id, userName |-> resp.body.name,
              err |-> nil]

\* fmt.Errorf("...: %w", err): the error with what it wraps.
Wrap(text, err) == Err(text \o ": " \o err.kind)

\* fetchMe (part_002) on the response to its request.
fetchMe(resp) ==
    LET fail(kind) == [userID |-> EmptyStr, userName |-> EmptyStr,
                       err |-> Err(kind)]
    IN  IF resp.transport # "ok" THEN fail("http get")
        ELSE IF ~resp.body.read THEN fail("http read")
        ELSE IF ~resp.body.json THEN fail("parsing /me response")
        ELSE IF resp.body.error THEN fail("meta api error")
        ELSE [userID |-> resp.body.id, userName |-> resp.body.name,
              err |-> nil]

\* config.Save: the own file holds the record afterwards; a failed write
\* leaves the file as it was.
ConfigSave(rec, ok) ==
    IF ok THEN ownStore' = StoreOf(rec) ELSE UNCHANGED ownStore

\* config.Clear: the own file is removed.
ConfigClear(ok) ==
    IF ok THEN ownStore' = NoStore ELSE UNCHANGED ownStore

\* What an auth handler leaves alone apart from its own effects.
authFrame ==
    <<metaToken, appID, appSecret, sharedStore, now, runs,
      authSetTokenNoExtend, authExtendTokenSave, ownBefore, cmd,
      cfg, client,
      fetchVars, emitted>>

\* runAuthSetToken line 155: the exchange is tried.
ShouldExchange ==
    ~authSetTokenNoExtend /\ appID # EmptyStr /\ appSecret # EmptyStr

\* Lines 158-165 with a slip: the token handed in is kept after a
\* successful exchange.
UpgradeKeepsOriginal(r, token) ==
    IF r.err # nil
    THEN [finalToken |-> token, expiresAt |-> 0]
    ELSE [finalToken |-> token, expiresAt |-> r.expiresAt]

\* runAuthSetToken lines 151-165: finalToken and expiresAt after the
\* exchange returned r.
Upgrade(r, token) ==
    IF r.err # nil
    THEN [finalToken |-> token, expiresAt |-> 0]
    ELSE [finalToken |-> r.token, expiresAt |-> r.expiresAt]

\* runAuthSetToken lines 146-172, up to the first request.
runAuthSetToken ==
    /\ cpc = "run"
    /\ cmd.name = "auth set-token"
    /\ IF ShouldExchange
       THEN /\ stdout' = Append(stdout, Line("app credentials found", 0))
            /\ requests' = Append(requests, ExchangeRequest(cmd.arg))
            /\ cpc' = "exchange"
            /\ UNCHANGED <<auth, stderr>>
       ELSE /\ stderr' = stderr \o
                  (IF ~authSetTokenNoExtend
                   THEN << Line("note: app credentials not set", 0) >>
                   ELSE <<>>)
            /\ auth' = [NoAuth EXCEPT !.finalToken = cmd.arg]
            /\ stdout' = Append(stdout, Line("validating token", 0))
            /\ requests' = Append(requests, MeRequest(cmd.arg))
            /\ cpc' = "validate"
    /\ UNCHANGED <<authFrame, ownStore, cmdErr, filesRead, responses>>

\* runAuthSetToken lines 157-172: the exchange has answered; fetchMe is
\* called with finalToken.
runAuthSetTokenExchanged(resp) ==
    /\ cpc = "exchange"
    /\ cmd.name = "auth set-token"
    /\ responses' = Append(responses, resp)
    /\ LET r == metaTokenFetch(resp)
           u == Upgrade(r, cmd.arg)
       IN  /\ auth' = [auth EXCEPT !.finalToken = u.finalToken,
                                   !.expiresAt = u.expiresAt]
           /\ stderr' = stderr \o
                 (IF r.err # nil
                  THEN << Line("warning: could not upgrade to long-lived token", 0) >>
                  ELSE <<>>)
           /\ stdout' = stdout \o
                 (IF r.err = nil
                  THEN << Line("token upgraded to long-lived", 0) >>
                  ELSE <<>>)
                 \o << Line("validating token", 0) >>
           /\ requests' = Append(requests, MeRequest(u.finalToken))
    /\ cpc' = "validate"
    /\ UNCHANGED <<authFrame, ownStore, cmdErr, filesRead>>

\* The record built with a slip: an unknown expiry is filled in from the
\* record stored before.
NewCfgKeepsExpiry(me) ==
    [AccessToken |-> auth.finalToken, UserID |-> me.userID,
     UserName |-> me.userName,
     TokenExpiresAt |-> IF auth.expiresAt = 0 /\ ownStore.exists /\ ownStore.json
                        THEN ownStore.rec.TokenExpiresAt
                        ELSE auth.expiresAt]

\* The record built after fetchMe (lines 177-182 and 224-229).
NewCfg(me) ==
    [AccessToken |-> auth.finalToken, UserID |-> me.userID,
     UserName |-> me.userName, TokenExpiresAt |-> auth.expiresAt]

\* What is printed after a save (lines 188-194, 233-239, 297-302).
SavedLines(kind, rec) ==
    << Line(kind, 0) >> \o
    (IF rec.TokenExpiresAt # 0
     THEN << Line("expires (days)", ConfigDaysUntilExpiry(rec)) >>
     ELSE <<>>)

\* Lines 173-175 with a slip: the error of fetchMe is ignored.
ValidationFailedIgnored(me) == FALSE

\* runAuthSetToken lines 173-175, runAuthExtendToken lines 220-222.
ValidationFailed(me) == me.err # nil

\* runAuthSetToken lines 172-195 and runAuthExtendToken lines 219-239:
\* fetchMe has answered; the record is saved unless validation failed.
ValidateAndSave(resp, ok) ==
    /\ cpc = "validate"
    /\ cmd.name \in {"auth set-token", "auth extend-token"}
    /\ responses' = Append(responses, resp)
    /\ LET me == fetchMe(resp) IN
         IF ValidationFailed(me)
         THEN Fail(Wrap("token validation failed", me.err))
              /\ UNCHANGED <<ownStore, stdout>>
         ELSE IF ~ok
         THEN Fail(Err("failed to save config"))
              /\ UNCHANGED <<ownStore, stdout>>
         ELSE /\ ConfigSave(NewCfg(me), ok)
              /\ stdout' = stdout \o
                    SavedLines(IF cmd.name = "auth set-token"
                               THEN "token saved"
                               ELSE "long-lived token saved", NewCfg(me))
              /\ cpc' = "exit"
              /\ UNCHANGED cmdErr
    /\ UNCHANGED <<authFrame, auth, stderr, filesRead, requests>>

\* runAuthExtendToken lines 199-212, up to the exchange request.
runAuthExtendToken ==
    /\ cpc = "run"
    /\ cmd.name = "auth extend-token"
    /\ IF appID = EmptyStr
       THEN Fail(Err("META_APP_ID not set")) /\ UNCHANGED <<stdout, requests>>
       ELSE IF appSecret = EmptyStr
       THEN Fail(Err("META_APP_SECRET not set"))
            /\ UNCHANGED <<stdout, requests>>
       ELSE /\ stdout' = Append(stdout, Line("exchanging for long-lived token", 0))
            /\ requests' = Append(requests, ExchangeRequest(cmd.arg))
            /\ cpc' = "exchange"
            /\ UNCHANGED cmdErr
    /\ UNCHANGED <<authFrame, ownStore, auth, stderr, filesRead, responses>>

\* runAuthExtendToken lines 212-250: the exchange has answered.
runAuthExtendTokenExchanged(resp) ==
    /\ cpc = "exchange"
    /\ cmd.name = "auth extend-token"
    /\ responses' = Append(responses, resp)
    /\ LET r == metaTokenFetch(resp) IN
         IF r.err # nil
         THEN Fail(Err("token exchange failed"))
              /\ UNCHANGED <<auth, stdout, requests>>
         ELSE /\ auth' = [auth EXCEPT !.finalToken = r.token,
                                      !.expiresAt = r.expiresAt]
              /\ UNCHANGED cmdErr
              /\ IF authExtendTokenSave
                 THEN /\ stdout' = Append(stdout, Line("validating token", 0))
                      /\ requests' = Append(requests, MeRequest(r.token))
                      /\ cpc' = "validate"
                 ELSE /\ stdout' = stdout \o << Line("long-lived token", 0) >>
                            \o (IF r.expiresAt # 0
                                THEN << Line("expires", 0) >> ELSE <<>>)
                      /\ cpc' = "exit"
                      /\ UNCHANGED requests
    /\ UNCHANGED <<authFrame, ownStore, stderr, filesRead>>

\* Lines 287-292 with a slip: the owner is not carried over.
RefreshedConfigNoOwner(c, r) ==
    [AccessToken |-> r.token, UserID |-> EmptyStr, UserName |-> EmptyStr,
     TokenExpiresAt |-> r.expiresAt]

\* runAuthRefresh lines 287-292: the record of a refreshed token.
RefreshedConfig(c, r) ==
    [AccessToken |-> r.token, UserID |-> c.UserID, UserName |-> c.UserName,
     TokenExpiresAt |-> r.expiresAt]

\* runAuthRefresh lines 273-280: the line on the current expiry.
RefreshNotice(c) ==
    LET days == ConfigDaysUntilExpiry(c) IN
        IF days = -1 THEN Line("refreshing token (current expiry unknown)", 0)
        ELSE IF ConfigIsExpired(c)
        THEN Line("token has expired, attempting refresh anyway", 0)
        ELSE Line("current token expires in day(s), refreshing now", days)

\* runAuthRefresh with a slip: the check of lines 268-270 is missing, an
\* empty stored token is sent to the exchange.
runAuthRefreshUnchecked ==
    /\ cpc = "run"
    /\ cmd.name = "auth refresh"
    /\ IF appID = EmptyStr
       THEN Fail(Err("META_APP_ID not set"))
            /\ UNCHANGED <<auth, stdout, requests, filesRead>>
       ELSE IF appSecret = EmptyStr
       THEN Fail(Err("META_APP_SECRET not set"))
            /\ UNCHANGED <<auth, stdout, requests, filesRead>>
       ELSE /\ filesRead' = filesRead \cup {"own"}
            /\ LET l == ConfigLoad IN
                 IF l.err # nil
                 THEN Fail(Err("failed to load config"))
                      /\ UNCHANGED <<auth, stdout, requests>>
                 ELSE /\ auth' = [NoAuth EXCEPT !.c = l.c]
                      /\ stdout' = Append(stdout, RefreshNotice(l.c))
                      /\ requests' = Append(requests,
                                            ExchangeRequest(l.c.AccessToken))
                      /\ cpc' = "exchange"
                      /\ UNCHANGED cmdErr
    /\ UNCHANGED <<authFrame, ownStore, stderr, responses>>

\* runAuthRefresh lines 254-282, up to the exchange request.
runAuthRefresh ==
    /\ cpc = "run"
    /\ cmd.name = "auth refresh"
    /\ IF appID = EmptyStr
       THEN Fail(Err("META_APP_ID not set"))
            /\ UNCHANGED <<auth, stdout, requests, filesRead>>
       ELSE IF appSecret = EmptyStr
       THEN Fail(Err("META_APP_SECRET not set"))
            /\ UNCHANGED <<auth, stdout, requests, filesRead>>
       ELSE /\ filesRead' = filesRead \cup {"own"}
            /\ LET l == ConfigLoad IN
                 IF l.err # nil
                 THEN Fail(Err("failed to load config"))
                      /\ UNCHANGED <<auth, stdout, requests>>
                 ELSE IF l.c.AccessToken = EmptyStr
                 THEN Fail(Err("not authenticated: auth set-token"))
                      /\ UNCHANGED <<auth, stdout, requests>>
                 ELSE /\ auth' = [NoAuth EXCEPT !.c = l.c]
                      /\ stdout' = Append(stdout, RefreshNotice(l.c))
                      /\ requests' = Append(requests,
                                            ExchangeRequest(l.c.AccessToken))
                      /\ cpc' = "exchange"
                      /\ UNCHANGED cmdErr
    /\ UNCHANGED <<authFrame, ownStore, stderr, responses>>

\* runAuthRefresh lines 282-303: the exchange has answered.
runAuthRefreshExchanged(resp, ok) ==
    /\ cpc = "exchange"
    /\ cmd.name = "auth refresh"
    /\ responses' = Append(responses, resp)
    /\ LET r == metaTokenFetch(resp) IN
         IF r.err # nil
         THEN Fail(Err("token refresh failed"))
              /\ UNCHANGED <<auth, ownStore, stdout>>
         ELSE /\ auth' = [auth EXCEPT !.finalToken = r.token,
                                      !.expiresAt = r.expiresAt]
              /\ IF ~ok
                 THEN Fail(Err("failed to save refreshed token"))
                      /\ UNCHANGED <<ownStore, stdout>>
                 ELSE /\ ConfigSave(RefreshedConfig(auth.c, r), ok)
                      /\ stdout' = stdout \o
                            SavedLines("token refreshed",
                                       RefreshedConfig(auth.c, r))
                      /\ cpc' = "exit"
                      /\ UNCHANGED cmdErr
    /\ UNCHANGED <<authFrame, stderr, filesRead, requests>>

\* authLogoutCmd.RunE with a slip: the shared file is removed as well.
authLogoutBoth(ok) ==
    /\ cpc = "run"
    /\ cmd.name = "auth logout"
    /\ IF ok
       THEN /\ ConfigClear(ok)
            /\ sharedStore' = NoStore
            /\ stdout' = Append(stdout, Line("logged out", 0))
            /\ cpc' = "exit"
            /\ UNCHANGED cmdErr
       ELSE Fail(Err("failed to clear config"))
            /\ UNCHANGED <<ownStore, sharedStore, stdout>>
    /\ UNCHANGED <<metaToken, appID, appSecret, now, runs,
                   authSetTokenNoExtend, authExtendTokenSave, ownBefore, cmd,
      cfg, client,
                   fetchVars, emitted, auth, stderr, filesRead, requests,
                   responses>>

\* authLogoutCmd.RunE (part_002 lines 89-95).
authLogout(ok) ==
    /\ cpc = "run"
    /\ cmd.name = "auth logout"
    /\ IF ok
       THEN /\ ConfigClear(ok)
            /\ stdout' = Append(stdout, Line("logged out", 0))
            /\ cpc' = "exit"
            /\ UNCHANGED cmdErr
       ELSE Fail(Err("failed to clear config"))
            /\ UNCHANGED <<ownStore, stdout>>
    /\ UNCHANGED <<authFrame, auth, stderr, filesRead, requests, responses>>

(***************************************************************************)
(* A session: invocations of the program one after the other on the same   *)
(* credential files, auth commands among them, while the clock advances.   *)
(***************************************************************************)
MaxRuns  == 2    \* invocations in a session
MaxTicks == 1    \* days the clock advances in a session

TokN == Str("N")    \* the token handed to set-token / extend-token
TokX == Str("X")    \* the token the exchange endpoint returns

AuthCmd(words, name, arg) ==
    [SearchCmd EXCEPT !.path = <<"meta-adlib">> \o words, !.name = name,
                      !.query = EmptyStr, !.countries = <<>>, !.arg = arg]

\* The command lines of a session, with the values of --no-extend and --save.
Invocations ==
    {[cmd |-> AuthCmd(<<"auth", "set-token">>, "auth set-token", TokN),
      noExtend |-> b, save |-> FALSE] : b \in BOOLEAN}
    \cup {[cmd |-> AuthCmd(<<"auth", "extend-token">>, "auth extend-token", TokN),
           noExtend |-> FALSE, save |-> b] : b \in BOOLEAN}
    \cup {[cmd |-> c, noExtend |-> FALSE, save |-> FALSE] :
            c \in {AuthCmd(<<"auth", "refresh">>, "auth refresh", EmptyStr),
                   AuthCmd(<<"auth", "logout">>, "auth logout", EmptyStr),
                   AuthCmd(<<"auth", "status">>, "auth status", EmptyStr),
                   AuthCmd(<<"info">>, "info", EmptyStr),
                   AuthCmd(<<"ad", "get">>, "ad get", Str("1")),
                   SearchCmd,
                   [SearchCmd EXCEPT !.path = <<"meta-adlib", "page", "ads">>,
                                     !.name = "page ads", !.query = EmptyStr,
                                     !.arg = Str("1")]}}

AuthResponse(status, body) ==
    [transport |-> "ok", status |-> status, usage |-> NoUsage, body |-> body]

\* Bodies of the two endpoints: not JSON, an error payload, an object
\* without the fields, a token with a lifetime, an identity.
AuthGarbage == [NoAuthBody EXCEPT !.read = TRUE]

AuthObject == [NoAuthBody EXCEPT !.read = TRUE, !.json = TRUE]

AuthError == [AuthObject EXCEPT !.error = TRUE]

TokenBody(token, expiresIn) ==
    [AuthObject EXCEPT !.access_token = token, !.expires_in = expiresIn]

MeBody(id, name) == [AuthObject EXCEPT !.id = id, !.name = name]

\* expires_in as the exchange endpoint may report it: negative, absent,
\* an hour, sixty days.
ExpiresIns == {-1, 0, 3600, 5184000}

TokenResponses ==
    {TransportFail}
    \cup {AuthResponse(200, b) :
            b \in {AuthGarbage, AuthError, AuthObject}
                  \cup {TokenBody(TokX, e) : e \in ExpiresIns}}

MeResponses ==
    {TransportFail, AuthResponse(200, AuthGarbage)}
    \cup {AuthResponse(st, b) :
            st \in Statuses,
            b \in {AuthError, AuthObject, MeBody(Str("7"), Str("m"))}}

\* The shell starts the program: a new process, nothing of the previous
\* one is left but the files.
Invoke(inv) ==
    /\ cpc = "exit"
    /\ runs < MaxRuns
    /\ runs' = runs + 1
    /\ cmd' = inv.cmd
    /\ authSetTokenNoExtend' = inv.noExtend
    /\ authExtendTokenSave' = inv.save
    /\ ownBefore' = ownStore
    /\ cpc' = "start"
    /\ cmdErr' = nil
    /\ cfg' = NilCfg
    /\ client' = NoClient
    /\ filesRead' = {}
    /\ stderr' = <<>>
    /\ stdout' = <<>>
    /\ auth' = NoAuth
    /\ fpc' = "idle"
    /\ limit' = 0
    /\ params' = NoValues
    /\ p' = NoValues
    /\ currentPath' = NoPath
    /\ all' = <<>>
    /\ got' = NoGot
    /\ ret' = NoRet
    /\ requests' = <<>>
    /\ responses' = <<>>
    /\ emitted' = 0
    /\ UNCHANGED <<metaToken, appID, appSecret, ownStore, sharedStore, now>>

\* A day passes.
Tick ==
    /\ now < Now0 + MaxTicks * DaySeconds
    /\ now' = now + DaySeconds
    /\ UNCHANGED <<metaToken, appID, appSecret, ownStore, sharedStore, runs,
                   cmdVars, authVars, fetchVars, netVars>>

InitAuth ==
    /\ metaToken \in {EmptyStr, TokE}
    /\ appID \in {EmptyStr, Str("a")}
    /\ appSecret \in {EmptyStr, Str("s")}
    /\ ownStore \in {NoStore, CorruptStore}
          \cup {StoreOf([AccessToken |-> TokL, UserID |-> Str("i"),
                         UserName |-> Str("n"), TokenExpiresAt |-> e]) :
                   e \in {0, Now0 + 3600}}
    /\ sharedStore \in {NoStore}
          \cup {StoreOf([AccessToken |-> TokH, UserID |-> Str("j"),
                         UserName |-> Str("o"), TokenExpiresAt |-> e]) :
                   e \in {0, Now0 + 3600}}
    /\ now = Now0
    /\ runs = 1
    /\ \E inv \in Invocations :
          /\ cmd = inv.cmd
          /\ authSetTokenNoExtend = inv.noExtend
          /\ authExtendTokenSave = inv.save
    /\ ownBefore = ownStore
    /\ cpc = "start"
    /\ cmdErr = nil
    /\ cfg = NilCfg
    /\ client = NoClient
    /\ filesRead = {}
    /\ stderr = <<>>
    /\ stdout = <<>>
    /\ auth = NoAuth
    /\ fpc = "idle"
    /\ limit = 0
    /\ params = NoValues
    /\ p = NoValues
    /\ currentPath = NoPath
    /\ all = <<>>
    /\ got = NoGot
    /\ ret = NoRet
    /\ requests = <<>>
    /\ responses = <<>>
    /\ emitted = 0

Starts == \E inv \in Invocations : Invoke(inv)

SetTokenExchangeAnswers ==
    \E resp \in TokenResponses : runAuthSetTokenExchanged(resp)

ExtendTokenExchangeAnswers ==
    \E resp \in TokenResponses : runAuthExtendTokenExchanged(resp)

RefreshExchangeAnswers ==
    \E resp \in TokenResponses, ok \in BOOLEAN :
        runAuthRefreshExchanged(resp, ok)

MeAnswers == \E resp \in MeResponses, ok \in BOOLEAN : ValidateAndSave(resp, ok)

Logout == \E ok \in BOOLEAN : authLogout(ok)

NextAuth ==
    \/ Starts
    \/ Tick
    \/ PersistentPreRunE
    \/ runAuthSetToken
    \/ SetTokenExchangeAnswers
    \/ runAuthExtendToken
    \/ ExtendTokenExchangeAnswers
    \/ MeAnswers
    \/ runAuthRefresh
    \/ RefreshExchangeAnswers
    \/ Logout
    \/ authStatus
    \/ printInfo
    \/ runSearch
    \/ runPageAds
    \/ runAdGet
    \/ Get
    \/ CmdServerAnswers
    \/ SearchAdsLoop
    \/ runSearchReturn
    \/ runAdGetReturn

SpecAuth == InitAuth /\ [][NextAuth]_vars

(***************************************************************************)
(* What the server has done, read off the log of responses.                *)
(***************************************************************************)
\* The records of the first n responses, in the order emitted.
RECURSIVE Served(_)
Served(n) ==
    IF n = 0 THEN <<>> ELSE Served(n - 1) \o responses[n].body.data

LastResponse == responses[Len(responses)]

\* A response that is a well-formed page.
PageOK(resp) ==
    /\ resp.transport = "ok"
    /\ resp.body.read
    /\ resp.body.json
    /\ ~resp.body.error.present
    /\ resp.status < 400

\* A response that is one of the failures of a page request.
PageFailed(resp) ==
    \/ resp.transport # "ok"
    \/ ~resp.body.read
    \/ ~resp.body.json
    \/ resp.body.error.present
    \/ resp.status >= 400

\* The next-page locator of a page, "" when it has none.
NextOf(resp) ==
    IF resp.body.paging.present THEN resp.body.paging.next ELSE NoPath

HasNext(resp) == NextOf(resp) # NoPath

\* The fetch ran over a chain of pages that all succeeded and whose
\* locators all lead somewhere.
ChainSucceeded ==
    /\ fpc = "done"
    /\ cmd.name \in {"search", "page ads"}
    /\ \A j \in 1..Len(responses) :
          PageOK(responses[j]) /\ NextOf(responses[j]).valid

(***************************************************************************)
(* C1. Over a chain of pages that all succeed, SearchAds returns a prefix  *)
(* of the concatenation of the pages' records in the order emitted: with   *)
(* limit = 0 every record of every page up to and including the first      *)
(* page without a next locator, with limit > 0 the first min(limit, total) *)
(* records.                                                                *)
(***************************************************************************)
C1_PrefixInEmissionOrder ==
    ChainSucceeded =>
        LET n     == Len(responses)
            total == Served(n)
        IN  /\ ret.err = nil
            /\ n >= 1
            /\ limit = 0 =>
                  /\ ret.items = total
                  /\ ~HasNext(responses[n])
                  /\ \A j \in 1..(n - 1) : HasNext(responses[j])
            /\ limit > 0 =>
                  /\ ret.items = SubSeqTo(total, Min(limit, Len(total)))
                  /\ Len(total) < limit => ~HasNext(responses[n])

\* A fetch with limit 3 that stopped in the middle of its second page.
C1_Witness ==
    /\ ChainSucceeded
    /\ limit = 3
    /\ Len(responses) = 2
    /\ Len(Served(2)) = 4
    /\ ret.items = <<1, 2, 3>>

(***************************************************************************)
(* C2. Page requests go out one at a time and only as many as needed: a    *)
(* request is issued only after every earlier one was answered by a page   *)
(* that has a next locator and left the limit unreached, and a fetch that  *)
(* returns records ends on the first page that reaches the limit or has no *)
(* next locator.                                                           *)
(***************************************************************************)
C2_MinimumRequests ==
    /\ Len(responses) <= Len(requests)
    /\ Len(requests) <= Len(responses) + 1
    /\ fpc \in {"got", "done"} => Len(requests) = Len(responses)
    /\ \A j \in 1..(Len(requests) - 1) :
          /\ PageOK(responses[j])
          /\ HasNext(responses[j])
          /\ limit > 0 => Len(Served(j)) < limit
    /\ (fpc = "done" /\ ret.err = nil) =>
          LET n == Len(requests) IN
             \/ limit > 0 /\ Len(Served(n)) >= limit
             \/ ~HasNext(responses[n])

\* A fetch with limit 3 that stopped after two requests although the
\* second page named a third.
C2_Witness ==
    /\ fpc = "done"
    /\ ret.err = nil
    /\ limit = 3
    /\ Len(requests) = 2
    /\ HasNext(responses[2])
    /\ Len(Served(1)) = 2

(***************************************************************************)
(* C3. A failed page request ends the fetch: it is the last request, and   *)
(* the fetch returns the error and no record.                              *)
(***************************************************************************)
C3_FailureDiscardsPartial ==
    \A j \in 1..Len(responses) :
        PageFailed(responses[j]) =>
            /\ j = Len(requests)
            /\ fpc \in {"got", "done"}
            /\ fpc = "got" => got.err # nil \/ ~got.body.json
            /\ fpc = "done" => ret.err # nil /\ ret.items = <<>>

\* A fetch whose third request failed after two pages of records.
C3_Witness ==
    /\ fpc = "done"
    /\ Len(responses) = 3
    /\ PageFailed(responses[3])
    /\ Len(all) = 4
    /\ ret.err # nil

(***************************************************************************)
(* C4 as stated. For every page after the first the request is the         *)
(* server's locator verbatim: same target, and no parameter merged into    *)
(* its query or overwriting one of its parameters.  (Stated of the         *)
(* locators that are complete request targets, as the server's are.)       *)
(***************************************************************************)
C4_LocatorVerbatim ==
    \A j \in 2..Len(requests) :
        LET loc == NextOf(responses[j - 1]) IN
            loc.http =>
                /\ requests[j].prefix = ""
                /\ requests[j].text = loc.text
                /\ ParseQuery(requests[j].query) = ParseQuery(loc.query)

(***************************************************************************)
(* C4 amended. For every page after the first the request is built from    *)
(* the server's locator alone: it goes to the locator's target (after      *)
(* baseURL when the locator does not start with "http"), every parameter   *)
(* of the locator other than access_token keeps its values, no parameter   *)
(* of the original parameter set is merged in, and access_token is set to  *)
(* the client's token, replacing the locator's own; the query is written   *)
(* again in key order.                                                     *)
(***************************************************************************)
C4_LocatorPlusToken ==
    \A j \in 2..Len(requests) :
        LET loc == NextOf(responses[j - 1])
            q   == ParseQuery(requests[j].query)
        IN  /\ requests[j].text = loc.text
            /\ requests[j].prefix = IF loc.http THEN "" ELSE baseURL
            /\ \A k \in Keys \ {"access_token"} : q[k] = ParseQuery(loc.query)[k]
            /\ q["access_token"] = <<client.token>>
            /\ requests[j].query = Encode(q)

\* A second request built from the absolute locator, whose access_token
\* and limit differ from the client's token and the caller's limit.
C4_Witness ==
    /\ Len(requests) >= 2
    /\ NextOf(responses[1]) = LocAbs
    /\ ValuesGet(params, "limit") = <<"5", "0">>
    /\ ValuesGet(params, "search_terms") # EmptyStr
    /\ ValuesGet(ParseQuery(requests[2].query), "access_token") = TokT
    /\ ValuesGet(ParseQuery(requests[2].query), "limit") = Str("25")

(***************************************************************************)
(* C5. For a response whose body was read, doRequest returns the API       *)
(* error when the body is JSON with an error payload, whatever the status; *)
(* otherwise the HTTP error with the status and the raw body when the      *)
(* status is >= 400; otherwise the body.                                   *)
(***************************************************************************)
C5_ErrorPrecedence ==
    (/\ fpc = "got"
     /\ got.err.kind # "url parse"
     /\ LastResponse.transport = "ok"
     /\ LastResponse.body.read) =>
        LET r == LastResponse IN
            IF r.body.json /\ r.body.error.present
            THEN /\ got.err.kind = "meta api"
                 /\ got.err.payload = r.body.error
            ELSE IF r.status >= 400
            THEN /\ got.err.kind = "http"
                 /\ got.err.status = r.status
                 /\ got.err.body = r.body
            ELSE /\ got.err = nil
                 /\ got.body = r.body

\* A response with status 200 and an error payload, returned as the error.
C5_Witness ==
    /\ fpc = "got"
    /\ Len(responses) >= 1
    /\ LastResponse.status = 200
    /\ LastResponse.body.error.present
    /\ got.err.kind = "meta api"

(***************************************************************************)
(* What an invocation started from, read off the credential sources.       *)
(***************************************************************************)
\* The token a credential file holds, "" when it holds none.
StoredToken(store) ==
    IF store.exists /\ store.json THEN store.rec.AccessToken ELSE EmptyStr

\* The file was read without error and holds no token.
YieldsNothing(store) ==
    ~store.exists \/ (store.json /\ store.rec.AccessToken = EmptyStr)

\* A non-auth command whose PersistentPreRunE has run.
Resolving == cpc # "start" /\ cmd.name # "auth status"

ResolvedFromOwn ==
    Resolving /\ metaToken = EmptyStr /\ StoredToken(ownStore) # EmptyStr

ResolvedFromShared ==
    /\ Resolving
    /\ metaToken = EmptyStr
    /\ YieldsNothing(ownStore)
    /\ StoredToken(sharedStore) # EmptyStr

Wrote(stream, kinds) == \E i \in 1..Len(stream) : stream[i].kind \in kinds

OwnWarned ==
    Wrote(stderr, {"own token has expired", "own token expires in days"})

SharedWarned ==
    Wrote(stderr, {"meta-auth token has expired", "meta-auth token expires in days"})

ResolveErrors ==
    {"failed to load config", "failed to read meta-auth config",
     NotAuthenticated.kind, "token has expired"}

\* The access_token a request carries.
TokenOf(req) == ValuesGet(ParseQuery(req.query), "access_token")

(***************************************************************************)
(* C6. resolveToken returns the token of the first non-empty source in the *)
(* order META_TOKEN, own config, shared config: a non-empty META_TOKEN     *)
(* whatever the files hold, without reading them and without a warning; a  *)
(* non-empty own token whatever the shared file holds; the shared token    *)
(* only when META_TOKEN and the own token are both empty.                  *)
(***************************************************************************)
C6_FirstNonEmptySourceWins ==
    Resolving =>
        /\ metaToken # EmptyStr =>
              /\ client = NewClient(metaToken)
              /\ ~OwnWarned /\ ~SharedWarned
              /\ cpc = "run" => filesRead = {} /\ stderr = <<>> /\ cmdErr = nil
        /\ ResolvedFromOwn =>
              /\ client = NewClient(StoredToken(ownStore))
              /\ cpc = "run" => filesRead = {"own"} /\ cmdErr = nil
        /\ ResolvedFromShared => client = NewClient(StoredToken(sharedStore))
        /\ (client.built /\ client.token = StoredToken(sharedStore)) =>
              metaToken = EmptyStr /\ StoredToken(ownStore) = EmptyStr

\* META_TOKEN wins over an expired own token and a shared token, silently.
C6_Witness ==
    /\ cpc = "run"
    /\ metaToken = TokE
    /\ StoredToken(ownStore) = TokL
    /\ ownStore.rec.TokenExpiresAt = Now0 - 3600
    /\ StoredToken(sharedStore) = TokH
    /\ client.token = TokE
    /\ stderr = <<>>

(***************************************************************************)
(* C7. A non-auth command for which none of the three sources yields a     *)
(* token fails with the "not authenticated" error; no client is built and  *)
(* no request is issued.  A search or page listing whose query             *)
(* specification fails validation issues no request either.                *)
(***************************************************************************)
C7_NoTokenNoRequest ==
    /\ (/\ Resolving
        /\ metaToken = EmptyStr
        /\ YieldsNothing(ownStore)
        /\ YieldsNothing(sharedStore)) =>
            /\ cpc = "exit"
            /\ cmdErr = NotAuthenticated
            /\ client = NoClient
            /\ requests = <<>>
            /\ fpc = "idle"
    /\ cmdErr.kind \in ResolveErrors => client = NoClient /\ requests = <<>>
    /\ (/\ cmd.name = "search"
        /\ Len(cmd.countries) = 0 \/ (cmd.query = EmptyStr /\ Len(cmd.pageIDs) = 0))
          => requests = <<>>
    /\ (cmd.name = "page ads" /\ Len(cmd.countries) = 0) => requests = <<>>

\* `ad get` with an own config that holds an empty record and no shared file.
C7_Witness ==
    /\ cmd.name = "ad get"
    /\ cpc = "exit"
    /\ metaToken = EmptyStr
    /\ ownStore = StoreOf(NoCfg)
    /\ sharedStore = NoStore
    /\ cmdErr = NotAuthenticated
    /\ requests = <<>>

(***************************************************************************)
(* C8 as stated. When the token comes from the own or the shared store, a  *)
(* warning is written if and only if the stored expiry is known and lies   *)
(* at most 7 x 24 hours after the current time.                            *)
(***************************************************************************)
Known(rec) == rec.TokenExpiresAt # 0

C8_WarnsWithinSevenDays ==
    /\ ResolvedFromOwn =>
          (OwnWarned <=>
              /\ Known(ownStore.rec)
              /\ ownStore.rec.TokenExpiresAt - now <= WarnDays * DaySeconds)
    /\ ResolvedFromShared =>
          (SharedWarned <=>
              /\ Known(sharedStore.rec)
              /\ sharedStore.rec.TokenExpiresAt - now <= WarnDays * DaySeconds)

(***************************************************************************)
(* C8 amended. When the token comes from the own or the shared store, a    *)
(* warning is written if and only if the stored expiry is known and lies   *)
(* less than 8 x 24 hours after the current time (the whole days left,     *)
(* rounded down, are at most 7), any instant already past included.        *)
(***************************************************************************)
C8_WarnsUnderEightDays ==
    /\ ResolvedFromOwn =>
          (OwnWarned <=>
              /\ Known(ownStore.rec)
              /\ ownStore.rec.TokenExpiresAt - now < (WarnDays + 1) * DaySeconds)
    /\ ResolvedFromShared =>
          (SharedWarned <=>
              /\ Known(sharedStore.rec)
              /\ sharedStore.rec.TokenExpiresAt - now < (WarnDays + 1) * DaySeconds)

\* A shared token that expires in seven days and a half draws the warning.
C8_Witness ==
    /\ ResolvedFromShared
    /\ sharedStore.rec.TokenExpiresAt = Now0 + 648000
    /\ stderr = << Line("meta-auth token expires in days", 7) >>

(***************************************************************************)
(* C9. An expiry warning never blocks: once resolveToken has written one,  *)
(* it has returned the stored token without error, the client holds that   *)
(* token, every request carries it, and a command that needs a request     *)
(* does not end without having issued one.                                 *)
(***************************************************************************)
NeedsRequest ==
    \/ cmd.name = "ad get"
    \/ cmd.name = "page ads" /\ Len(cmd.countries) > 0
    \/ /\ cmd.name = "search"
       /\ Len(cmd.countries) > 0
       /\ cmd.query # EmptyStr \/ Len(cmd.pageIDs) > 0

C9_WarningNeverBlocks ==
    (OwnWarned \/ SharedWarned) =>
        /\ cpc # "start"
        /\ cmdErr.kind \notin ResolveErrors
        /\ client = NewClient(IF OwnWarned THEN StoredToken(ownStore)
                              ELSE StoredToken(sharedStore))
        /\ \A j \in 1..Len(requests) : TokenOf(requests[j]) = client.token
        /\ (cpc = "exit" /\ NeedsRequest) => Len(requests) >= 1

\* A request that carries the own token after the "has expired" warning.
C9_Witness ==
    /\ Wrote(stderr, {"own token has expired"})
    /\ Len(requests) >= 1
    /\ TokenOf(requests[1]) = TokL
    /\ client.token = TokL

(***************************************************************************)
(* C10. A stored credential whose expiry instant is in the past is         *)
(* reported as expired, never as expiring or as having days left, by the   *)
(* resolver warnings, by `auth status` and by the expiry line of `info`.   *)
(***************************************************************************)
Past(rec) == Known(rec) /\ rec.TokenExpiresAt < now

\* The record whose expiry `info` reports.
InfoRecord ==
    IF StoredToken(ownStore) # EmptyStr THEN ownStore.rec ELSE sharedStore.rec

C10_PastIsReportedExpired ==
    /\ (ResolvedFromOwn /\ Past(ownStore.rec)) =>
          /\ Wrote(stderr, {"own token has expired"})
          /\ ~Wrote(stderr, {"own token expires in days"})
    /\ (ResolvedFromShared /\ Past(sharedStore.rec)) =>
          /\ Wrote(stderr, {"meta-auth token has expired"})
          /\ ~Wrote(stderr, {"meta-auth token expires in days"})
    /\ (/\ cmd.name = "auth status"
        /\ cpc = "exit"
        /\ StoredToken(ownStore) # EmptyStr
        /\ Past(ownStore.rec)) =>
          /\ Wrote(stdout, {"status expires: EXPIRED"})
          /\ ~Wrote(stdout, {"status expires: unknown",
                             "status expires: day(s) left, refresh",
                             "status expires: days left"})
    /\ (/\ cmd.name = "info"
        /\ cpc = "exit"
        /\ cmdErr = nil
        /\ Past(InfoRecord)) =>
          /\ Wrote(stdout, {"expires: EXPIRED"})
          /\ ~Wrote(stdout, {"expires: unknown", "expires: days left"})

(***************************************************************************)
(* What an auth invocation has done, read off its requests and responses.  *)
(***************************************************************************)
IsExchange(req) == req.text = metaExchangeURL

IsMe(req) == req.text = metaMeURL

\* The token a request to the exchange endpoint asks to exchange.
ExchangedOf(req) == ValuesGet(ParseQuery(req.query), "fb_exchange_token")

\* The exchange answered with a token.
ExchangeOK(resp) ==
    /\ resp.transport = "ok"
    /\ resp.body.read /\ resp.body.json /\ ~resp.body.error
    /\ resp.body.access_token # EmptyStr

\* The identity endpoint answered without an error payload.
MeOK(resp) ==
    /\ resp.transport = "ok"
    /\ resp.body.read /\ resp.body.json /\ ~resp.body.error

SecretsSet == appID # EmptyStr /\ appSecret # EmptyStr

Succeeded == cpc = "exit" /\ cmdErr = nil

\* The errors a command ends with when fetchMe failed.
ValidationErrors ==
    {"token validation failed: http get",
     "token validation failed: http read",
     "token validation failed: parsing /me response",
     "token validation failed: meta api error"}

(***************************************************************************)
(* C11. In `auth set-token` with both application secrets set and without  *)
(* --no-extend, the exchange request is the first request and validation   *)
(* follows it.  If the exchange succeeds, the exchanged token is the one   *)
(* validated and saved, with the expiry of the exchange.  If it fails, a   *)
(* warning is written, the command goes on, and the token handed in is     *)
(* validated and saved with unknown expiry.  With a secret missing or with *)
(* --no-extend, no exchange request is issued and the token handed in is   *)
(* validated and saved.                                                    *)
(***************************************************************************)
C11_ExchangeThenValidate ==
    cmd.name = "auth set-token" =>
        /\ (SecretsSet /\ ~authSetTokenNoExtend /\ cpc \notin {"start", "run"}) =>
              /\ Len(requests) >= 1
              /\ IsExchange(requests[1])
              /\ ExchangedOf(requests[1]) = cmd.arg
              /\ \A j \in 2..Len(requests) : IsMe(requests[j])
              /\ Len(requests) = Len(responses) + (IF cpc = "exit" THEN 0 ELSE 1)
              /\ (Len(responses) >= 1 /\ ExchangeOK(responses[1])) =>
                    /\ stderr = <<>>
                    /\ Len(requests) = 2
                    /\ TokenOf(requests[2]) = responses[1].body.access_token
                    /\ Succeeded =>
                          /\ ownStore.rec.AccessToken = responses[1].body.access_token
                          /\ ownStore.rec.TokenExpiresAt = auth.expiresAt
                          /\ IF responses[1].body.expires_in > 0
                             THEN auth.expiresAt - responses[1].body.expires_in
                                     \in Now0..now
                             ELSE auth.expiresAt = 0
              /\ (Len(responses) >= 1 /\ ~ExchangeOK(responses[1])) =>
                    /\ stderr = << Line("warning: could not upgrade to long-lived token", 0) >>
                    /\ Len(requests) = 2
                    /\ TokenOf(requests[2]) = cmd.arg
                    /\ cmdErr.kind \in {"nil", "failed to save config"}
                                        \cup ValidationErrors
                    /\ Succeeded =>
                          /\ ownStore.rec.AccessToken = cmd.arg
                          /\ ownStore.rec.TokenExpiresAt = 0
        /\ (~(SecretsSet /\ ~authSetTokenNoExtend) /\ cpc \notin {"start", "run"}) =>
              /\ Len(requests) = 1
              /\ IsMe(requests[1])
              /\ TokenOf(requests[1]) = cmd.arg
              /\ Succeeded =>
                    /\ ownStore.rec.AccessToken = cmd.arg
                    /\ ownStore.rec.TokenExpiresAt = 0
        /\ Succeeded =>
              /\ MeOK(responses[Len(responses)])
              /\ ownStore.exists /\ ownStore.json
              /\ ownStore.rec.UserID = responses[Len(responses)].body.id
              /\ ownStore.rec.UserName = responses[Len(responses)].body.name

\* The exchange failed, and the token handed in was validated and saved.
C11_Witness ==
    /\ cmd.name = "auth set-token"
    /\ Succeeded
    /\ Len(responses) = 2
    /\ responses[1] = AuthResponse(200, AuthError)
    /\ stderr = << Line("warning: could not upgrade to long-lived token", 0) >>
    /\ ownStore = StoreOf([AccessToken |-> TokN, UserID |-> Str("7"),
                           UserName |-> Str("m"), TokenExpiresAt |-> 0])

(***************************************************************************)
(* C12. `auth refresh` never calls the identity endpoint: it sends at most *)
(* one request, to the exchange endpoint, for the stored token.  In the    *)
(* step in which it succeeds, the record it saves has the token and the    *)
(* expiry of the exchange response and the owner identifier and owner      *)
(* name of the record that was stored before.                              *)
(***************************************************************************)
RefreshSucceeds == cmd.name = "auth refresh" /\ cpc = "exchange" /\ Succeeded'

C12_RefreshKeepsOwner ==
    /\ [](cmd.name = "auth refresh" =>
            /\ Len(requests) <= 1
            /\ \A j \in 1..Len(requests) :
                  /\ IsExchange(requests[j])
                  /\ ~IsMe(requests[j])
                  /\ ExchangedOf(requests[j]) = ownStore.rec.AccessToken
                        \/ cpc = "exit")
    /\ [][RefreshSucceeds =>
            LET resp == responses'[Len(responses')] IN
            /\ ExchangeOK(resp)
            /\ ownStore.exists /\ ownStore.json
            /\ ownStore'.exists /\ ownStore'.json
            /\ ownStore'.rec.UserID = ownStore.rec.UserID
            /\ ownStore'.rec.UserName = ownStore.rec.UserName
            /\ ownStore'.rec.AccessToken = resp.body.access_token
            /\ ownStore'.rec.TokenExpiresAt =
                  IF resp.body.expires_in > 0
                  THEN now + resp.body.expires_in ELSE 0]_vars

\* A refreshed record: the exchanged token under the owner stored before.
C12_Witness ==
    /\ cmd.name = "auth refresh"
    /\ Succeeded
    /\ runs = 1
    /\ responses = << AuthResponse(200, TokenBody(TokX, 5184000)) >>
    /\ ownStore.rec.AccessToken = TokX
    /\ ownStore.rec.UserID = Str("i")
    /\ ownStore.rec.UserName = Str("n")
    /\ ownStore.rec.TokenExpiresAt > now

(***************************************************************************)
(* C13. In the step in which an exchange succeeds, the expiry it yields is *)
(* the clock at that step plus expires_in when expires_in is positive, and *)
(* unknown (0) otherwise.  A stored credential with unknown expiry draws   *)
(* no resolver warning and is reported as "unknown" by `auth status`, by   *)
(* `info` and by `auth refresh`, never as expired or as having days left.  *)
(***************************************************************************)
ExchangeAnswered ==
    /\ cpc = "exchange"
    /\ Len(responses') = Len(responses) + 1
    /\ ExchangeOK(responses'[Len(responses')])

StatusExpiryKinds ==
    {"status expires: EXPIRED", "status expires: day(s) left, refresh",
     "status expires: days left"}

C13_ExpiryFromExchange ==
    /\ [][ExchangeAnswered =>
            LET resp == responses'[Len(responses')] IN
            /\ auth'.finalToken = resp.body.access_token
            /\ auth'.expiresAt = IF resp.body.expires_in > 0
                                 THEN now + resp.body.expires_in ELSE 0]_vars
    /\ []((/\ Succeeded
           /\ \/ cmd.name \in {"auth set-token", "auth refresh"}
              \/ cmd.name = "auth extend-token" /\ authExtendTokenSave) =>
             ownStore.rec.TokenExpiresAt = auth.expiresAt)
    /\ []((ResolvedFromOwn /\ ~Known(ownStore.rec)) => ~OwnWarned)
    /\ []((ResolvedFromShared /\ ~Known(sharedStore.rec)) => ~SharedWarned)
    /\ []((/\ cmd.name = "auth status"
           /\ cpc = "exit"
           /\ StoredToken(ownStore) # EmptyStr
           /\ ~Known(ownStore.rec)) =>
             /\ Wrote(stdout, {"status expires: unknown"})
             /\ ~Wrote(stdout, StatusExpiryKinds))
    /\ []((/\ cmd.name = "info"
           /\ cpc = "exit"
           /\ cmdErr = nil
           /\ \/ StoredToken(ownStore) # EmptyStr
              \/ StoredToken(sharedStore) # EmptyStr
           /\ ~Known(InfoRecord)) =>
             /\ Wrote(stdout, {"expires: unknown"})
             /\ ~Wrote(stdout, {"expires: EXPIRED", "expires: days left"}))
    /\ []((/\ cmd.name = "auth refresh"
           /\ cpc = "exchange"
           /\ ~Known(auth.c)) =>
             stdout = << Line("refreshing token (current expiry unknown)", 0) >>)

\* A token saved without expiry by an earlier invocation is resolved, a
\* day later, without a warning.
C13_Witness ==
    /\ runs = 2
    /\ now = Now0 + DaySeconds
    /\ ResolvedFromOwn
    /\ ownStore.rec.AccessToken = TokX
    /\ ownStore.rec.TokenExpiresAt = 0
    /\ cmd.name = "ad get"
    /\ Len(requests) = 1
    /\ stderr = <<>>

(***************************************************************************)
(* C14. Query validation reports the first violated precondition only: a   *)
(* search without a country fails with the country error whether or not    *)
(* search terms or page identifiers are given; a search with a country but *)
(* with neither search terms nor page identifiers fails with the           *)
(* query-or-page-id error; `page ads` without a country fails with the     *)
(* country error.  In these cases SearchAds is never entered and no        *)
(* request is issued.                                                      *)
(***************************************************************************)
\* The handler of the command has run (the token was resolved before it).
HandlerRan == client.built /\ cpc \notin {"start", "run"}

NeverFetched ==
    /\ cpc = "exit"
    /\ fpc = "idle"
    /\ params = NoValues
    /\ requests = <<>>
    /\ stdout = <<>>

C14_FirstViolationOnly ==
    /\ (cmd.name = "search" /\ HandlerRan /\ Len(cmd.countries) = 0) =>
          /\ cmdErr = Err("at least one --country is required")
          /\ NeverFetched
    /\ (/\ cmd.name = "search"
        /\ HandlerRan
        /\ Len(cmd.countries) > 0
        /\ cmd.query = EmptyStr
        /\ Len(cmd.pageIDs) = 0) =>
          /\ cmdErr = Err("at least one of --query or --page-id is required")
          /\ NeverFetched
    /\ (/\ cmd.name = "search"
        /\ HandlerRan
        /\ Len(cmd.countries) > 0
        /\ cmd.query # EmptyStr \/ Len(cmd.pageIDs) > 0) =>
          /\ fpc # "idle"
          /\ cmdErr.kind \notin {"at least one --country is required",
                                 "at least one of --query or --page-id is required"}
    /\ (cmd.name = "page ads" /\ HandlerRan /\ Len(cmd.countries) = 0) =>
          /\ cmdErr = Err("at least one --country is required")
          /\ NeverFetched

\* A search that violates both preconditions reports the country one.
C14_Witness ==
    /\ cmd.name = "search"
    /\ HandlerRan
    /\ Len(cmd.countries) = 0
    /\ cmd.query = EmptyStr
    /\ Len(cmd.pageIDs) = 0
    /\ cmdErr = Err("at least one --country is required")
    /\ requests = <<>>

(***************************************************************************)
(* The query builder on arbitrary filter values: a search whose country    *)
(* list is any short list of short strings over characters that need       *)
(* quoting (double quote, backslash), that separate (comma), that are      *)
(* not printable (line feed, bell) and one that is plain.                  *)
(***************************************************************************)
MaxValueLen == 1    \* characters in one filter value
MaxValues   == 2    \* values in one filter list

Chars == {"U", ",", "\"", "\\", "LF", "BEL"}

SeqsUpTo(S, n) == UNION {[1..k -> S] : k \in 0..n}

FilterValues == SeqsUpTo(Chars, MaxValueLen)

FilterLists == SeqsUpTo(FilterValues, MaxValues)

InitQuery ==
    /\ metaToken = TokE
    /\ appID = EmptyStr
    /\ appSecret = EmptyStr
    /\ ownStore = NoStore
    /\ sharedStore = NoStore
    /\ now = Now0
    /\ runs = 1
    /\ authSetTokenNoExtend = FALSE
    /\ authExtendTokenSave = FALSE
    /\ ownBefore = ownStore
    /\ auth = NoAuth
    /\ \E cs \in FilterLists, ids \in {<<>>, <<Str("1")>>} :
          cmd = [SearchCmd EXCEPT !.countries = cs, !.pageIDs = ids]
    /\ cpc = "start"
    /\ cmdErr = nil
    /\ cfg = NilCfg
    /\ client = NoClient
    /\ filesRead = {}
    /\ stderr = <<>>
    /\ stdout = <<>>
    /\ fpc = "idle"
    /\ limit = 0
    /\ params = NoValues
    /\ p = NoValues
    /\ currentPath = NoPath
    /\ all = <<>>
    /\ got = NoGot
    /\ ret = NoRet
    /\ requests = <<>>
    /\ responses = <<>>
    /\ emitted = 0

NextQuery ==
    \/ PersistentPreRunE
    \/ runSearch
    \/ Get

SpecQuery == InitQuery /\ [][NextQuery]_vars

(***************************************************************************)
(* A JSON decoder for an array of strings (RFC 8259): the escapes of a     *)
(* string are \" \\ \/ \b \f \n \r \t and \uXXXX, and a control character  *)
(* may not stand unescaped.  It reads the text from position i in state    *)
(* st, with the string being read in cur and the strings read in acc.      *)
(***************************************************************************)
JSONFail == [ok |-> FALSE, list |-> <<>>]

JSONEscapes ==
    [c \in {"\"", "\\", "/", "n"} |-> IF c = "n" THEN "LF" ELSE c]

RECURSIVE JSONScan(_, _, _, _, _)
JSONScan(text, i, st, cur, acc) ==
    IF i > Len(text)
    THEN IF st = "end" THEN [ok |-> TRUE, list |-> acc] ELSE JSONFail
    ELSE LET c == text[i] IN
         CASE st = "open" ->
                IF c = "[" THEN JSONScan(text, i + 1, "first", cur, acc)
                ELSE JSONFail
           [] st = "first" ->
                IF c = "]" THEN JSONScan(text, i + 1, "end", cur, acc)
                ELSE IF c = "\"" THEN JSONScan(text, i + 1, "string", <<>>, acc)
                ELSE JSONFail
           [] st = "value" ->
                IF c = "\"" THEN JSONScan(text, i + 1, "string", <<>>, acc)
                ELSE JSONFail
           [] st = "string" ->
                IF c = "\"" THEN JSONScan(text, i + 1, "after", <<>>, Append(acc, cur))
                ELSE IF c = "\\" THEN JSONScan(text, i + 1, "escape", cur, acc)
                ELSE IF c \in {"LF", "BEL"} THEN JSONFail
                ELSE JSONScan(text, i + 1, "string", Append(cur, c), acc)
           [] st = "escape" ->
                IF c \in DOMAIN JSONEscapes
                THEN JSONScan(text, i + 1, "string", Append(cur, JSONEscapes[c]), acc)
                ELSE JSONFail
           [] st = "after" ->
                IF c = "," THEN JSONScan(text, i + 1, "value", cur, acc)
                ELSE IF c = "]" THEN JSONScan(text, i + 1, "end", cur, acc)
                ELSE JSONFail
           [] OTHER -> JSONFail

JSONDecode(text) == JSONScan(text, 1, "open", <<>>, <<>>)

(***************************************************************************)
(* C15. toJSONArray round-trips: for every list of filter values, the      *)
(* encoded parameter value is bracket-delimited and decodes, as a JSON     *)
(* array, to the same list in the same order, both in the parameters       *)
(* handed to SearchAds and in the request sent.                            *)
(***************************************************************************)
C15_RoundTrip ==
    (cmd.name = "search" /\ fpc # "idle") =>
        LET text == ValuesGet(params, "ad_reached_countries") IN
        /\ Head(text) = "["
        /\ text[Len(text)] = "]"
        /\ JSONDecode(text) = [ok |-> TRUE, list |-> cmd.countries]
        /\ \A j \in 1..Len(requests) :
              JSONDecode(ValuesGet(ParseQuery(requests[j].query),
                                   "ad_reached_countries")).list
                 = cmd.countries

(***************************************************************************)
(* The paging engine against a server that reports its usage: the          *)
(* X-App-Usage header of a response is absent, is not JSON, or holds       *)
(* percentages below, at and above the threshold.                          *)
(***************************************************************************)
Usage(calls, cpu, time) ==
    [present |-> TRUE, json |-> TRUE,
     call_count |-> calls, total_cputime |-> cpu, total_time |-> time]

Usages ==
    {NoUsage,
     [NoUsage EXCEPT !.present = TRUE],
     Usage(10, 100, 20),
     Usage(75, 0, 75),
     Usage(75, 100, 40),
     Usage(80, 0, 40),
     Usage(10, 0, 76)}

\* A failed connection, and under every usage: a body that cannot be read,
\* an error payload, a refusal by status, a last page, a page naming a next.
RateResponses(n) ==
    {TransportFail}
    \cup {Response(200, u, b) :
            u \in Usages,
            b \in {NoBody, ErrorBody,
                   PageBody(Fresh(n, 1), NoPaging),
                   PageBody(Fresh(n, 1), [present |-> TRUE, next |-> LocAbs])}}
    \cup {Response(400, u, PageBody(<<>>, NoPaging)) : u \in Usages}

RateServerAnswers == \E resp \in RateResponses(emitted) : Answer(resp)

NextRate ==
    \/ SearchAdsCall
    \/ Get
    \/ RateServerAnswers
    \/ SearchAdsLoop

SpecRate == InitFetch /\ [][NextRate]_vars

\* The usage a response reports is above the threshold: the larger of the
\* call-count and total-time percentages exceeds 75.
HighUsage(resp) ==
    /\ resp.transport = "ok"
    /\ resp.usage.present
    /\ resp.usage.json
    /\ resp.usage.call_count > 75 \/ resp.usage.total_time > 75

\* The warnings due for the first n responses, in order.
RECURSIVE WarningsDue(_)
WarningsDue(n) ==
    IF n = 0 THEN <<>>
    ELSE WarningsDue(n - 1) \o
         (IF HighUsage(responses[n])
          THEN << Line("rate limit",
                       IF responses[n].usage.total_time > responses[n].usage.call_count
                       THEN responses[n].usage.total_time
                       ELSE responses[n].usage.call_count) >>
          ELSE <<>>)

(***************************************************************************)
(* C16. Each response draws exactly one warning if the larger of its       *)
(* call-count and total-time percentages exceeds 75, and none otherwise:   *)
(* none at exactly 75, none without the header or with a header that is    *)
(* not JSON, and whatever the CPU time reported.  The lines on stderr are  *)
(* exactly the warnings due for the responses received, in order.          *)
(***************************************************************************)
C16_WarnAbove75 == stderr = WarningsDue(Len(responses))

\* Three pages: 75% with 100% CPU time, 80% of calls, 76% of time.  Two
\* warnings.
C16_Witness ==
    /\ Len(responses) = 3
    /\ responses[1].usage = Usage(75, 100, 40)
    /\ responses[2].usage = Usage(80, 0, 40)
    /\ responses[3].usage = Usage(10, 0, 76)
    /\ stderr = << Line("rate limit", 80), Line("rate limit", 76) >>

(***************************************************************************)
(* C17. The usage check runs on every response received, before the body   *)
(* is examined: a response that is an error (unreadable body, error        *)
(* payload, status >= 400) draws its warning when its usage is high.  The  *)
(* check is advisory: what the request returns depends on the response's   *)
(* body and status alone, and the fetch returns the same records or error  *)
(* after the same number of requests as it does without warnings.          *)
(***************************************************************************)
RateLines == {i \in 1..Len(stderr) : stderr[i].kind = "rate limit"}

C17_CheckIsAdvisory ==
    /\ Cardinality(RateLines)
          = Cardinality({j \in 1..Len(responses) : HighUsage(responses[j])})
    /\ (/\ Len(responses) >= 1
        /\ PageFailed(LastResponse)
        /\ HighUsage(LastResponse)) =>
          /\ Len(stderr) >= 1
          /\ stderr[Len(stderr)].kind = "rate limit"
    /\ (fpc = "got" /\ PageOK(LastResponse)) =>
          got = [body |-> LastResponse.body, err |-> nil]
    /\ (fpc = "got" /\ PageFailed(LastResponse)) =>
          got.body = NoBody /\ (got.err # nil \/ ~LastResponse.body.json)
    /\ C1_PrefixInEmissionOrder
    /\ C2_MinimumRequests
    /\ C3_FailureDiscardsPartial

\* A page under high usage followed by an error payload under high usage:
\* two warnings, and the fetch fails as it does without them.
C17_Witness ==
    /\ fpc = "done"
    /\ Len(responses) = 2
    /\ PageOK(responses[1]) /\ HighUsage(responses[1])
    /\ responses[2] = Response(200, Usage(80, 0, 40), ErrorBody)
    /\ Len(stderr) = 2
    /\ ret.err.kind = "meta api"
    /\ ret.items = <<>>

(***************************************************************************)
(* C18. Every request of the API client carries the resolved token, and    *)
(* nothing else, as access_token: the first page request, a follow-on      *)
(* request built from a locator that has an access_token of its own, the   *)
(* single-ad lookup.  The token is the one resolved at the start of the    *)
(* command, and the client holding it does not change once built.          *)
(***************************************************************************)
\* What resolveToken picks from the sources as they are.
ResolvedToken ==
    IF metaToken # EmptyStr THEN metaToken
    ELSE IF StoredToken(ownStore) # EmptyStr THEN StoredToken(ownStore)
    ELSE StoredToken(sharedStore)

C18_EveryRequestCarriesToken ==
    /\ [](\A j \in 1..Len(requests) :
            /\ client.built
            /\ client.token = ResolvedToken
            /\ client.token # EmptyStr
            /\ ParseQuery(requests[j].query)["access_token"] = << client.token >>)
    /\ [][client.built => client' = client]_vars

\* A second page request built from a locator that carries another token.
C18_Witness ==
    /\ cmd.name = "search"
    /\ Len(requests) = 2
    /\ NextOf(responses[1]) = LocAbs
    /\ ParseQuery(LocAbs.query)["access_token"] = << TokS >>
    /\ client.token = TokL
    /\ ParseQuery(requests[1].query)["access_token"] = << TokL >>
    /\ ParseQuery(requests[2].query)["access_token"] = << TokL >>

(***************************************************************************)
(* C19. Whenever the body of the identity response carries an error        *)
(* payload, whatever its HTTP status, validation fails with the server's   *)
(* error, and `auth set-token` and `auth extend-token --save` end with     *)
(* that error without saving: the own file is as it was.                   *)
(***************************************************************************)
MeAnswered == cpc = "validate" /\ Len(responses') = Len(responses) + 1

HasErrorPayload(resp) ==
    resp.transport = "ok" /\ resp.body.read /\ resp.body.json /\ resp.body.error

C19_ErrorPayloadFailsValidation ==
    /\ [][(MeAnswered /\ HasErrorPayload(responses'[Len(responses')])) =>
            /\ cmd.name \in {"auth set-token", "auth extend-token"}
            /\ cmd.name = "auth extend-token" => authExtendTokenSave
            /\ IsMe(requests[Len(requests)])
            /\ cpc' = "exit"
            /\ cmdErr' = Err("token validation failed: meta api error")
            /\ ownStore' = ownStore
            /\ stdout' = stdout]_vars
    /\ []((/\ cmd.name \in {"auth set-token", "auth extend-token"}
           /\ cpc = "exit"
           /\ Len(requests) >= 1
           /\ Len(responses) = Len(requests)
           /\ IsMe(requests[Len(requests)])
           /\ HasErrorPayload(LastResponse)) =>
             /\ cmdErr = Err("token validation failed: meta api error")
             /\ ~Wrote(stdout, {"token saved", "long-lived token saved"}))

\* set-token on a machine without credentials: the exchange succeeds, the
\* identity endpoint answers 200 with an error payload, nothing is saved.
C19_Witness ==
    /\ cmd.name = "auth set-token"
    /\ runs = 1
    /\ cpc = "exit"
    /\ Len(responses) = 2
    /\ ExchangeOK(responses[1])
    /\ responses[2] = AuthResponse(200, AuthError)
    /\ cmdErr = Err("token validation failed: meta api error")
    /\ ownStore = NoStore

(***************************************************************************)
(* C20. The shared credential store is read-only to the program: no step   *)
(* of any command (search, page ads, ad get, info, auth set-token, auth    *)
(* extend-token with or without --save, auth refresh, auth status, auth    *)
(* logout), succeeding or failing, changes its content, so it is after any *)
(* sequence of commands what it was before.                                *)
(***************************************************************************)
C20_SharedStoreReadOnly == [][sharedStore' = sharedStore]_vars

\* A second invocation, `auth logout`, has removed the own file; the file
\* of the sibling tool is still there.
C20_Witness ==
    /\ runs = MaxRuns
    /\ cmd.name = "auth logout"
    /\ Succeeded
    /\ Wrote(stdout, {"logged out"})
    /\ ownStore = NoStore
    /\ sharedStore # NoStore

(***************************************************************************)
(* C21. A save overwrites the own record wholesale.  After a successful    *)
(* `auth set-token` (and a successful `auth extend-token --save`) the      *)
(* stored record is exactly: the final token (the exchanged one when the   *)
(* exchange succeeded, else the one handed in), the owner identifier and   *)
(* name of the identity response, and the expiry of the exchange, which is *)
(* unknown (0) when no exchange took place, when it failed or when it      *)
(* reported no lifetime, whatever the record stored before held.           *)
(***************************************************************************)
\* The invocation exchanged the token handed in with success.
Exchanged ==
    /\ Len(responses) = 2
    /\ IsExchange(requests[1])
    /\ ExchangeOK(responses[1])

SavingCommandSucceeded ==
    /\ Succeeded
    /\ \/ cmd.name = "auth set-token"
       \/ cmd.name = "auth extend-token" /\ authExtendTokenSave

C21_SaveOverwritesWholesale ==
    SavingCommandSucceeded =>
        /\ ownStore.exists
        /\ ownStore.json
        /\ ownStore.rec.AccessToken =
              (IF Exchanged THEN responses[1].body.access_token ELSE cmd.arg)
        /\ ownStore.rec.AccessToken = TokenOf(requests[Len(requests)])
        /\ ownStore.rec.UserID = LastResponse.body.id
        /\ ownStore.rec.UserName = LastResponse.body.name
        /\ IF Exchanged /\ responses[1].body.expires_in > 0
           THEN ownStore.rec.TokenExpiresAt - responses[1].body.expires_in
                   \in Now0..now
           ELSE ownStore.rec.TokenExpiresAt = 0

\* set-token without an exchange over a record that had a known expiry:
\* nothing of the old record is left.
C21_Witness ==
    /\ cmd.name = "auth set-token"
    /\ Succeeded
    /\ Len(responses) = 1
    /\ ownBefore = StoreOf([AccessToken |-> TokL, UserID |-> Str("i"),
                            UserName |-> Str("n"),
                            TokenExpiresAt |-> Now0 + 3600])
    /\ ownStore = StoreOf([AccessToken |-> TokN, UserID |-> Str("7"),
                           UserName |-> Str("m"), TokenExpiresAt |-> 0])

(***************************************************************************)
(* C22. A failing `auth set-token` leaves the own store unchanged.  When   *)
(* the identity endpoint does not validate the final token (transport      *)
(* failure, unparseable body or error payload) the command ends with the   *)
(* validation error, no save is performed, and the own file is what the    *)
(* invocation found, also when a preceding exchange had succeeded.  The    *)
(* own file changes only in the step in which the command succeeds.        *)
(***************************************************************************)
\* The identity endpoint has answered the last request of a finished
\* command.
MeAnswer ==
    /\ cpc = "exit"
    /\ Len(requests) >= 1
    /\ Len(responses) = Len(requests)
    /\ IsMe(requests[Len(requests)])

C22_FailedSetTokenSavesNothing ==
    cmd.name = "auth set-token" =>
        /\ ~Succeeded => ownStore = ownBefore
        /\ (MeAnswer /\ ~MeOK(LastResponse)) =>
              /\ cmdErr.kind \in ValidationErrors
              /\ ownStore = ownBefore
              /\ ~Wrote(stdout, {"token saved"})

\* The exchange succeeded, the identity request failed in transport: the
\* record stored before is still the stored record.
C22_Witness ==
    /\ cmd.name = "auth set-token"
    /\ cpc = "exit"
    /\ Len(responses) = 2
    /\ ExchangeOK(responses[1])
    /\ responses[2] = TransportFail
    /\ cmdErr = Err("token validation failed: http get")
    /\ ownBefore = StoreOf([AccessToken |-> TokL, UserID |-> Str("i"),
                            UserName |-> Str("n"),
                            TokenExpiresAt |-> Now0 + 3600])
    /\ ownStore = ownBefore

(***************************************************************************)
(* C23. `auth refresh` fails without issuing any HTTP request when         *)
(* META_APP_ID or META_APP_SECRET is unset or when the own store holds no  *)
(* token; a token of META_TOKEN or of the shared store is not refreshed.   *)
(* Whenever refresh has not succeeded, whatever the reason (a failed       *)
(* exchange, a failed save), the own store is what the invocation found.   *)
(***************************************************************************)
\* The store holds a record with a token.
HoldsToken(store) ==
    store.exists /\ store.json /\ store.rec.AccessToken # EmptyStr

C23_RefreshFailsCleanly ==
    cmd.name = "auth refresh" =>
        /\ (cpc \notin {"start", "run"} /\ (~SecretsSet \/ ~HoldsToken(ownBefore))) =>
              /\ cpc = "exit"
              /\ cmdErr # nil
              /\ requests = <<>>
              /\ responses = <<>>
        /\ \A j \in 1..Len(requests) :
              ExchangedOf(requests[j]) = ownBefore.rec.AccessToken
        /\ ~Succeeded => ownStore = ownBefore
        /\ (cpc = "exit" /\ Len(responses) = 1 /\ ~ExchangeOK(responses[1])) =>
              /\ cmdErr = Err("token refresh failed")
              /\ ownStore = ownBefore

\* Secrets set, a token in META_TOKEN and in the shared store, none in the
\* own store: refresh fails and nothing was requested.
C23_Witness ==
    /\ cmd.name = "auth refresh"
    /\ cpc = "exit"
    /\ SecretsSet
    /\ metaToken = TokE
    /\ HoldsToken(sharedStore)
    /\ ownBefore = NoStore
    /\ ownStore = NoStore
    /\ cmdErr = Err("not authenticated: auth set-token")
    /\ requests = <<>>

(***************************************************************************)
(* The paging engine as a running program: the process is scheduled, and   *)
(* every request is answered or fails in transport (the HTTP client gives  *)
(* up after its timeout), so a step that can be taken is taken.            *)
(***************************************************************************)
SpecFetchLive == SpecFetch /\ WF_vars(NextFetch)

\* The server has named more pages in a row than a fetch of the model
\* follows.
ChainOutlasts == fpc = "get" /\ Len(requests) = MaxPages

\* Every page served so far carries at least one record.
NoEmptyPage ==
    \A j \in 1..Len(responses) :
        PageOK(responses[j]) => responses[j].body.data # <<>>

\* The loop holds a page that has a next locator and leaves the limit
\* unreached.
PageNamesNext ==
    /\ fpc = "got"
    /\ got.err = nil
    /\ got.body.json
    /\ ~NoNextPage(got.body)
    /\ ~(limit > 0 /\ Len(all) + Len(got.body.data) >= limit)

(***************************************************************************)
(* C24. SearchAds terminates.  It issues one request per page and none     *)
(* after a page without a next locator, so over a finite chain it returns  *)
(* after at most one request per page.  With limit > 0 and at least one    *)
(* record on every page it issues at most `limit` requests, whatever the   *)
(* chain, and returns.  The loop ends only with an error, with the limit   *)
(* reached or on a page without a next locator; a page without records     *)
(* that names a next page is followed.                                     *)
(***************************************************************************)
C24_SearchAdsTerminates ==
    /\ [](/\ Len(requests) <= Len(responses) + 1
          /\ \A j \in 1..(Len(requests) - 1) : HasNext(responses[j])
          /\ fpc = "done" =>
                /\ Len(requests) = Len(responses)
                /\ \/ ret.err # nil
                   \/ limit > 0 /\ Len(Served(Len(responses))) >= limit
                   \/ ~HasNext(LastResponse))
    /\ []((limit > 0 /\ NoEmptyPage) =>
             /\ Len(requests) <= limit
             /\ ~ChainOutlasts)
    /\ [][PageNamesNext =>
            /\ fpc' = "get"
            /\ currentPath' = got.body.paging.next
            /\ all' = all \o got.body.data]_vars
    /\ <>(fpc = "done" \/ ChainOutlasts)
    /\ <>(fpc = "done" \/ cmd.limit = 0 \/ ~NoEmptyPage)

\* A fetch with limit 2: the first page had no record and named a second,
\* the loop went on and ended on the third page with the limit reached.
C24_Witness ==
    /\ fpc = "done"
    /\ ret.err = nil
    /\ limit = 2
    /\ Len(requests) = 3
    /\ responses[1].body.data = <<>>
    /\ HasNext(responses[1])
    /\ HasNext(responses[3])
    /\ ret.items = <<1, 2>>

(***************************************************************************)
(* C25. `info` always runs to completion and reports the token source,     *)
(* whatever the credential state: it ends without an error, it has         *)
(* written the token source line, the line is "(not set)" when no source   *)
(* yields a token, and otherwise it names the source whose token           *)
(* resolveToken picked.                                                    *)
(***************************************************************************)
InfoSources ==
    {"META_TOKEN env var", "own config", "meta-auth shared config", "(not set)"}

\* The source whose token the client was built with.
PickedSource ==
    IF ~client.built THEN "(not set)"
    ELSE IF metaToken # EmptyStr THEN "META_TOKEN env var"
    ELSE IF client.token = StoredToken(ownStore) THEN "own config"
    ELSE "meta-auth shared config"

C25_InfoAlwaysReports ==
    (cmd.name = "info" /\ cpc = "exit") =>
        /\ cmdErr = nil
        /\ Len(stdout) >= 1
        /\ stdout[1].kind \in InfoSources
        /\ stdout[1].kind = PickedSource

(***************************************************************************)
(* C26. `auth set-token` and `auth extend-token --save` save a credential  *)
(* only after the identity endpoint has positively confirmed it: whenever  *)
(* one of them has succeeded, the identity response had a success status   *)
(* (< 400), carried no error payload and returned a non-empty owner        *)
(* identifier.                                                             *)
(***************************************************************************)
C26_SavedOnlyWhenConfirmed ==
    SavingCommandSucceeded =>
        /\ MeAnswer
        /\ MeOK(LastResponse)
        /\ LastResponse.status < ErrorStatus
        /\ LastResponse.body.id # EmptyStr
        /\ ownStore.rec.UserID # EmptyStr

====
